---- MODULE Spec2Model ----
(***************************************************************************)
(* Verification model of antigravity-claude-proxy.                         *)
(*                                                                         *)
(* The module holds one state machine per subsystem, each with its own     *)
(* specification over the shared variable list:                            *)
(*   LifecycleSpec  the account lifecycle state machine                    *)
(*                  (tests/unit/account-manager/state-machine.test.ts)     *)
(*   CacheSpec      the thinking signature cache                           *)
(*                  (cli/accounts.js, format/thinking-utils.js)            *)
(*   LookupSpec     the same cache under record, lookup, sweep and clock   *)
(*   PassSpec       restoreThinkingSignatures followed by                  *)
(*                  filterUnsignedThinkingBlocks                           *)
(*   ReorderSpec    reorderAssistantContent on arbitrary content arrays    *)
(*   TrailingSpec   removeTrailingThinkingBlocks on arbitrary arrays       *)
(*   ClosureSpec    closeToolLoopForThinking on arbitrary histories        *)
(*   IntegritySpec  the thinking-integrity passes of one request, in order *)
(*                  (format/thinking-utils.js)                             *)
(*   RefreshSpec    proactive token refresh: background checks and         *)
(*                  request-path refreshes (utils/proactive-token-refresh) *)
(*   SchedSpec      the account scheduler: executeWithRetry,               *)
(*                  selectAccountWithWait, executeOnAccount                *)
(*   LimitSpec      rate-limit entries as reported to clients and as seen  *)
(*                  by account selection (utils/error-sanitizer,           *)
(*                  public/app.js)                                         *)
(*   ErrorSpec      error payloads built for clients: createSafeError-     *)
(*                  Response (utils/error-sanitizer) and formatOpenAIError *)
(*                  (utils/error-utils.js)                                 *)
(*   OAuthSpec      adding an account: addAccount and addAccountNoBrowser  *)
(*                  (cli/accounts.js) with the callback server of          *)
(*                  tests/unit/auth/oauth.test.ts                          *)
(*   FetchSpec      fetchWithTimeout: the upstream fetch, its timeout      *)
(*                  timer and the caller's abort signal                    *)
(*                  (utils/fetch-with-timeout.js)                          *)
(*   ShutdownSpec   graceful shutdown: initiateShutdown and                *)
(*                  runCleanupCallbacks (utils/graceful-shutdown.js)       *)
(*   StreamSpec     streamToOpenAIFormat on arbitrary event sequences      *)
(*                  (format/openai-response-converter.js)                  *)
(*   MonitorSpec    startBackgroundRefresh, stopBackgroundRefresh and their*)
(*                  timers (utils/proactive-token-refresh.js)              *)
(*   CliSpec        the accounts CLI: interactiveAdd, interactiveRemove,   *)
(*                  clearAccounts (cli/accounts.js)                        *)
(* A subsystem's specification leaves the other subsystems' variables at   *)
(* their initial values.                                                   *)
(***************************************************************************)
EXTENDS Integers, Sequences, FiniteSets, TLC

VARIABLES
    \* ---- account lifecycle (state-machine.test.ts) ----
    states,         \* AccountStateMachine.states : accountId -> info | NoEntry
    invalidated,    \* history: markInvalid has been applied to the account
    lastTransition, \* history: the mark call just made, the state it found and the state it left
    \* ---- thinking signature cache (cli/accounts.js, format/thinking-utils.js) ----
    thinkingSignatureCache, \* the Map, as its entries in insertion order
    cacheClock,     \* number of clock steps taken; Date.now() is CacheNow
    lastRestore,    \* input, output and time of the restoreThinkingSignatures call just made
    recordCount,    \* number of record() calls that stored something so far
    tracked,        \* history: one record() call, whether it was superseded, whether an eviction ran since
    lastRecord,     \* arguments of the cacheThinkingSignature call just made, and whether it changed the cache
    lastLookup,     \* argument, result and time of the getCachedThinkingSignature call just made
    lastFilter,     \* input, output and time of the filterUnsignedThinkingBlocks call just made
    \* ---- proactive token refresh (utils/proactive-token-refresh.js) ----
    tokenMetadata,  \* email -> metadata object | NoMetadata
    tokenCache,     \* account manager's token cache: email -> expiry of the cached token, 0 when none
    exchange,       \* refresh-token exchanges: email -> [inflight, pending]
    exchangesStarted, \* number of exchanges started so far
    refreshNow,     \* Date.now()
    tick,           \* invocations of backgroundRefreshCheck
    request,        \* invocations of withProactiveRefresh
    lastTick,       \* what the backgroundRefreshCheck step just taken passed over, started and wrote
    \* ---- thinking integrity passes (format/thinking-utils.js) ----
    lastReorder,    \* input and output of the reorderAssistantContent call just made
    lastTrailing,   \* input and output of the removeTrailingThinkingBlocks call just made
    lastClosure,    \* input and output of the closeToolLoopForThinking call just made
    pipeline,       \* one request's messages on their way through the integrity passes
    \* ---- account scheduler (part_002) ----
    accountManager, \* sticky account and rate limits per model, invalid flags; history of marks
    calls,          \* invocations of sendMessage
    schedNow,       \* Date.now()
    count429,       \* number of 429 answers so far
    \* ---- rate-limit reports (utils/error-sanitizer, public/app.js) ----
    limitStore,     \* account store: rate limits per account and model, invalid flags
    limitNow,       \* Date.now()
    lastReport,     \* what the report just made for an account showed, and what selection saw
    \* ---- error payloads (utils/error-sanitizer, utils/error-utils.js) ----
    lastError,      \* the error just handled, the handler, and the payload built for the client
    \* ---- adding an account (cli/accounts.js) ----
    oauth,          \* the addAccount / addAccountNoBrowser invocation
    existingAccounts, \* emails of the accounts configured so far
    \* ---- upstream fetch (utils/fetch-with-timeout.js) ----
    fetches, \* invocations of fetchWithTimeout
    fetchNow, \* Date.now()
    \* ---- graceful shutdown (utils/graceful-shutdown.js) ----
    shutdown, \* the process: sockets, cleanup callbacks, position of initiateShutdown
    shutdownNow, \* Date.now()
    \* ---- OpenAI streaming conversion (format/openai-response-converter.js) ----
    stream, \* streamToOpenAIFormat: its locals, the events consumed and the chunks yielded
    \* ---- background refresh monitoring (utils/proactive-token-refresh.js) ----
    monitor, \* backgroundTimer, the live timers, and history: the check just run
    monitorNow, \* Date.now()
    \* ---- accounts CLI (cli/accounts.js) ----
    accountFile, \* the accounts saved in the account file
    cli, \* the CLI process: its position and its in-memory account list
    lastAdd \* history: the add just made, the list it was given, the flow's result, the file after

lifeVars == <<states, invalidated, lastTransition>>
cacheVars == <<thinkingSignatureCache, cacheClock, lastRestore, recordCount, tracked,
               lastRecord, lastLookup, lastFilter>>
refreshVars == <<tokenMetadata, tokenCache, exchange, exchangesStarted, refreshNow, tick, request,
                 lastTick>>
schedVars == <<accountManager, calls, schedNow, count429>>
integrityVars == <<lastReorder, lastTrailing, lastClosure, pipeline>>
limitVars == <<limitStore, limitNow, lastReport>>
errorVars == <<lastError>>
oauthVars == <<oauth, existingAccounts>>
coreVars == <<lifeVars, cacheVars, refreshVars, schedVars, integrityVars,
              limitVars, errorVars, oauthVars>>
fetchVars == <<fetches, fetchNow>>
shutdownVars == <<shutdown, shutdownNow>>
streamVars == <<stream>>
monitorVars == <<monitor, monitorNow>>
cliVars == <<accountFile, cli, lastAdd>>
auxVars == <<fetchVars, shutdownVars, streamVars, monitorVars, cliVars>>
edgeVars == <<limitVars, errorVars, oauthVars, auxVars>>
vars == <<states, invalidated, lastTransition, thinkingSignatureCache, cacheClock, lastRestore, recordCount, tracked,
          lastRecord, lastLookup, lastFilter,
          tokenMetadata, tokenCache, exchange, exchangesStarted, refreshNow, tick, request,
          lastTick,
          lastReorder, lastTrailing, lastClosure, pipeline,
          accountManager, calls, schedNow, count429,
          limitStore, limitNow, lastReport, lastError, oauth, existingAccounts,
          fetches, fetchNow,
          shutdown, shutdownNow,
          stream,
          monitor, monitorNow,
          accountFile, cli, lastAdd>>

(***************************************************************************)
(* Account lifecycle: AccountStateMachine                                   *)
(***************************************************************************)
AccountIds == {"account-1", "account-2"}
LifecycleResetTimes == {1000, 60000}
LifecycleErrors == {"invalid_grant", "token_revoked"}

\* Map.get() of a key that was never set
NoEntry == [state |-> "none"]

\* AccountStateMachine.getState: states.get(accountId) ?? { state: "active" }
StateMachine_getState(accountId) ==
    IF states[accountId] = NoEntry THEN [state |-> "active"] ELSE states[accountId]

\* the mark call op on accountId as a transition of the account's state
StateIn(map, accountId) ==
    IF map[accountId] = NoEntry THEN "active" ELSE map[accountId].state
Transition(op, accountId) ==
    [op |-> op, account |-> accountId, from |-> StateIn(states, accountId),
     to |-> StateIn(states', accountId)]
NoTransition == [op |-> "none", account |-> "none", from |-> "none", to |-> "none"]

\* AccountStateMachine.isUsable: state is active or recovering
StateMachine_isUsable(accountId) ==
    StateMachine_getState(accountId).state \in {"active", "recovering"}

\* AccountStateMachine.markRateLimited: unconditional set, whatever the current state is
StateMachine_markRateLimited(accountId, resetTime) ==
    /\ states' = [states EXCEPT ![accountId] =
                     [state |-> "rate_limited", rateLimitResetTime |-> resetTime]]
    /\ lastTransition' = Transition("markRateLimited", accountId)
    /\ UNCHANGED invalidated

\* AccountStateMachine.markRecovering: only from rate_limited
StateMachine_markRecovering(accountId) ==
    /\ states' = IF states[accountId].state = "rate_limited"
                 THEN [states EXCEPT ![accountId] = [state |-> "recovering"]]
                 ELSE states
    /\ lastTransition' = Transition("markRecovering", accountId)
    /\ UNCHANGED invalidated

\* AccountStateMachine.markActive: unless the current entry is invalid
StateMachine_markActive(accountId) ==
    /\ states' = IF states[accountId].state # "invalid"
                 THEN [states EXCEPT ![accountId] = [state |-> "active"]]
                 ELSE states
    /\ lastTransition' = Transition("markActive", accountId)
    /\ UNCHANGED invalidated

\* AccountStateMachine.markInvalid: unconditional set
StateMachine_markInvalid(accountId, error) ==
    /\ states' = [states EXCEPT ![accountId] =
                     [state |-> "invalid", lastError |-> error]]
    /\ lastTransition' = Transition("markInvalid", accountId)
    /\ invalidated' = [invalidated EXCEPT ![accountId] = TRUE]

LifecycleStart ==
    /\ states = [a \in AccountIds |-> NoEntry]
    /\ invalidated = [a \in AccountIds |-> FALSE]
    /\ lastTransition = NoTransition

LifecycleNext ==
    \/ \E a \in AccountIds, t \in LifecycleResetTimes : StateMachine_markRateLimited(a, t)
    \/ \E a \in AccountIds : StateMachine_markRecovering(a)
    \/ \E a \in AccountIds : StateMachine_markActive(a)
    \/ \E a \in AccountIds, e \in LifecycleErrors : StateMachine_markInvalid(a, e)

(***************************************************************************)
(* Thinking signature cache: cli/accounts.js lines 517-681                 *)
(*                                                                         *)
(* Texts are sequences of characters, " " being the whitespace character.  *)
(* A signature is modelled by an identity and its length.  sha256 is       *)
(* modelled as injective: the digest of a string is the string, tagged.    *)
(* The entry's preview field is only logged and is left out.               *)
(***************************************************************************)
THINKING_CACHE_TTL_MS == 7200000
\* MAX_CACHE_SIZE is 500 and the prefix length is 500 characters in the
\* source; the model runs the same code with both scaled down.
MAX_CACHE_SIZE == 4
PREFIX_LENGTH == 2
MaxCacheClock == 1
MaxLookupClock == 2
MaxRecords == 3

ThinkingTexts ==
    { <<"a", "b", "c">>, <<" ", "a", "b", "c">>,
      <<"a", " ", "b">>, <<"a", " ", " ", "b">>, <<>> }

NoSignature == [id |-> "", len |-> 0]
Signatures == { [id |-> "S1", len |-> 50], [id |-> "S2", len |-> 50] }
ShortSignature == [id |-> "S0", len |-> 49]

\* Date.now() at clock step i: 0, TTL, TTL + 1, 2*TTL + 1, 2*TTL + 2, ...
InstantAt(i) == (i \div 2) * (THINKING_CACHE_TTL_MS + 1) + (i % 2) * THINKING_CACHE_TTL_MS
CacheNow == InstantAt(cacheClock)

RECURSIVE TrimStart(_)
TrimStart(str) ==
    IF Len(str) > 0 /\ Head(str) = " " THEN TrimStart(Tail(str)) ELSE str

RECURSIVE TrimEnd(_)
TrimEnd(str) ==
    IF Len(str) > 0 /\ str[Len(str)] = " "
    THEN TrimEnd(SubSeq(str, 1, Len(str) - 1)) ELSE str

\* normalizeContent: content.trim()
normalizeContent(content) == TrimEnd(TrimStart(content))

Slice(str, n) == SubSeq(str, 1, IF Len(str) < n THEN Len(str) ELSE n)

\* hashContent: sha256 of the normalized content
hashContent(content) == [tag |-> "sha256", of |-> normalizeContent(content)]

\* hashPrefix: 'prefix_' + sha256 of the first PREFIX_LENGTH normalized characters
hashPrefix(content) ==
    [tag |-> "prefix_sha256", of |-> Slice(normalizeContent(content), PREFIX_LENGTH)]

\* Map operations on the insertion-ordered entry list
MapHas(map, key) == \E i \in 1..Len(map) : map[i].key = key
MapGet(map, key) == map[CHOOSE i \in 1..Len(map) : map[i].key = key]
MapSet(map, key, signature, timestamp) ==
    LET e == [key |-> key, signature |-> signature, timestamp |-> timestamp]
    IN  IF MapHas(map, key)
        THEN [i \in 1..Len(map) |-> IF map[i].key = key THEN e ELSE map[i]]
        ELSE Append(map, e)
MapDelete(map, key) == SelectSeq(map, LAMBDA e : e.key # key)

IsExpired(entry, now) == now - entry.timestamp > THINKING_CACHE_TTL_MS

\* cleanupCache, first loop: delete the entries whose TTL has passed
DropExpired(map, now) == SelectSeq(map, LAMBDA e : ~IsExpired(e, now))

\* position of entry i in the stable sort by timestamp
SortRank(map, i) ==
    Cardinality({ j \in 1..Len(map) :
        \/ map[j].timestamp < map[i].timestamp
        \/ (map[j].timestamp = map[i].timestamp /\ j < i) })

\* cleanupCache, second part: when still at the cap, delete the oldest half
EvictionRuns(map, now) == Len(DropExpired(map, now)) >= MAX_CACHE_SIZE

RemoveOldest(map) ==
    LET keep == { i \in 1..Len(map) : SortRank(map, i) >= MAX_CACHE_SIZE \div 2 }
        idx(k) == CHOOSE i \in keep : Cardinality({ j \in keep : j < i }) = k - 1
    IN  [k \in 1..Cardinality(keep) |-> map[idx(k)]]

cleanupCache(map, now) ==
    LET live == DropExpired(map, now)
    IN  IF Len(live) >= MAX_CACHE_SIZE THEN RemoveOldest(live) ELSE live

\* cacheThinkingSignature with the full-content key forgotten
cacheThinkingSignature_PrefixOnly(map, thinkingContent, signature, now) ==
    IF Len(thinkingContent) = 0 \/ signature.len = 0 THEN map
    ELSE IF signature.len < 50 THEN map
    ELSE LET swept == IF Len(map) >= MAX_CACHE_SIZE THEN cleanupCache(map, now) ELSE map
         IN  MapSet(swept, hashPrefix(thinkingContent), signature, now)

\* cacheThinkingSignature with the length test one character too low
cacheThinkingSignature_ShortAccepted(map, thinkingContent, signature, now) ==
    IF Len(thinkingContent) = 0 \/ signature.len = 0 THEN map
    ELSE IF signature.len < 49 THEN map
    ELSE LET swept == IF Len(map) >= MAX_CACHE_SIZE THEN cleanupCache(map, now) ELSE map
             one == MapSet(swept, hashContent(thinkingContent), signature, now)
         IN  MapSet(one, hashPrefix(thinkingContent), signature, now)

\* cacheThinkingSignature: the cache after the call
cacheThinkingSignature(map, thinkingContent, signature, now) ==
    IF Len(thinkingContent) = 0 \/ signature.len = 0 THEN map
    ELSE IF signature.len < 50 THEN map
    ELSE LET swept == IF Len(map) >= MAX_CACHE_SIZE THEN cleanupCache(map, now) ELSE map
             one == MapSet(swept, hashContent(thinkingContent), signature, now)
         IN  MapSet(one, hashPrefix(thinkingContent), signature, now)

\* whether this record() call stores anything
RecordAccepted(thinkingContent, signature) ==
    Len(thinkingContent) > 0 /\ signature.len >= 50

\* getCachedThinkingSignature with the TTL test made on full-content hits only
getCachedThinkingSignature_TtlOnFullKeyOnly(map, thinkingContent, now) ==
    IF Len(thinkingContent) = 0 THEN [signature |-> NoSignature, cache |-> map]
    ELSE LET hash == hashContent(thinkingContent)
             prefixHash == hashPrefix(thinkingContent)
             found == MapHas(map, hash) \/ MapHas(map, prefixHash)
             entry == IF MapHas(map, hash) THEN MapGet(map, hash) ELSE MapGet(map, prefixHash)
         IN  IF ~found THEN [signature |-> NoSignature, cache |-> map]
             ELSE IF MapHas(map, hash) /\ IsExpired(entry, now)
                  THEN [signature |-> NoSignature, cache |-> MapDelete(map, hash)]
                  ELSE [signature |-> entry.signature, cache |-> map]

\* getCachedThinkingSignature with the prefix key tried first
getCachedThinkingSignature_PrefixFirst(map, thinkingContent, now) ==
    IF Len(thinkingContent) = 0 THEN [signature |-> NoSignature, cache |-> map]
    ELSE LET hash == hashContent(thinkingContent)
             prefixHash == hashPrefix(thinkingContent)
             found == MapHas(map, hash) \/ MapHas(map, prefixHash)
             entry == IF MapHas(map, prefixHash) THEN MapGet(map, prefixHash) ELSE MapGet(map, hash)
         IN  IF ~found THEN [signature |-> NoSignature, cache |-> map]
             ELSE IF IsExpired(entry, now)
                  THEN [signature |-> NoSignature, cache |-> MapDelete(map, hash)]
                  ELSE [signature |-> entry.signature, cache |-> map]

\* getCachedThinkingSignature: [signature (NoSignature for null), cache after the call]
getCachedThinkingSignature(map, thinkingContent, now) ==
    IF Len(thinkingContent) = 0 THEN [signature |-> NoSignature, cache |-> map]
    ELSE LET hash == hashContent(thinkingContent)
             prefixHash == hashPrefix(thinkingContent)
             found == MapHas(map, hash) \/ MapHas(map, prefixHash)
             entry == IF MapHas(map, hash) THEN MapGet(map, hash) ELSE MapGet(map, prefixHash)
         IN  IF ~found THEN [signature |-> NoSignature, cache |-> map]
             ELSE IF IsExpired(entry, now)
                  THEN [signature |-> NoSignature, cache |-> MapDelete(map, hash)]
                  ELSE [signature |-> entry.signature, cache |-> map]

(***************************************************************************)
(* restoreThinkingSignatures: format/thinking-utils.js                     *)
(***************************************************************************)
MIN_SIGNATURE_LENGTH == 50

ThinkingBlock(text, signature) ==
    [type |-> "thinking", thinking |-> text, signature |-> signature, cache_control |-> FALSE]
TextBlock == [type |-> "text", text |-> <<"a">>]

\* sanitizeAnthropicThinkingBlock that does not copy the signature
sanitizeAnthropicThinkingBlock_SignatureDropped(block) ==
    IF block.type = "thinking"
    THEN [type |-> "thinking", thinking |-> block.thinking,
          signature |-> NoSignature, cache_control |-> FALSE]
    ELSE IF block.type = "redacted_thinking"
    THEN [f \in DOMAIN block \cap {"type", "data"} |-> block[f]]
    ELSE block

\* sanitizeAnthropicThinkingBlock: keep only type, thinking, signature of a
\* thinking block, type and data of a redacted_thinking block
sanitizeAnthropicThinkingBlock(block) ==
    IF block.type = "thinking"
    THEN [type |-> "thinking", thinking |-> block.thinking,
          signature |-> block.signature, cache_control |-> FALSE]
    ELSE IF block.type = "redacted_thinking"
    THEN [f \in DOMAIN block \cap {"type", "data"} |-> block[f]]
    ELSE block

\* restoreThinkingSignatures: [out, cache], block by block from the left
RECURSIVE restoreFrom(_, _, _, _, _)
restoreFrom(content, i, filtered, map, now) ==
    IF i > Len(content) THEN [out |-> filtered, cache |-> map]
    ELSE LET block == content[i] IN
         IF block.type # "thinking"
         THEN restoreFrom(content, i + 1, Append(filtered, block), map, now)
         ELSE IF block.signature.len > 0 /\ block.signature.len >= MIN_SIGNATURE_LENGTH
         THEN restoreFrom(content, i + 1,
                          Append(filtered, sanitizeAnthropicThinkingBlock(block)), map, now)
         ELSE LET got == getCachedThinkingSignature(map, block.thinking, now) IN
              IF got.signature.len > 0
              THEN restoreFrom(content, i + 1,
                       Append(filtered, sanitizeAnthropicThinkingBlock(
                           ThinkingBlock(block.thinking, got.signature))),
                       got.cache, now)
              ELSE restoreFrom(content, i + 1, filtered, got.cache, now)

restoreThinkingSignatures(content, map, now) == restoreFrom(content, 1, <<>>, map, now)

\* what the response paths record in runs with restore passes, and in runs
\* with direct lookups
RestoreTexts == { <<"a", "b", "c">>, <<" ", "a", "b", "c">>, <<"a", "b", "d">>, <<"a", " ", "b">> }
RestoreRecords == { <<t, s>> : t \in RestoreTexts, s \in Signatures }
LookupRecords ==
    { << <<"a", "b", "c">>, [id |-> "S1", len |-> 50] >>,
      << <<"a", " ", "b">>, [id |-> "S1", len |-> 50] >>,
      << <<"a", " ", " ", "b">>, [id |-> "S2", len |-> 50] >>,
      << <<"a", "b", "c">>, ShortSignature >>,
      << <<>>, [id |-> "S1", len |-> 50] >> }

RestoreBlocks ==
    { ThinkingBlock(t, NoSignature) : t \in RestoreTexts }
        \cup { ThinkingBlock(<<"a", "b", "c">>, [id |-> "S2", len |-> 50]), TextBlock }

RestoreContents ==
    { <<b>> : b \in RestoreBlocks }

NoRestore == [in |-> <<>>, out |-> <<>>, at |-> 0, again |-> <<>>]
NoFilter == [made |-> FALSE, in |-> <<>>, out |-> <<>>, at |-> 0]
NoTracked == [text |-> <<>>, signature |-> NoSignature, at |-> 0,
              superseded |-> FALSE, prefixSuperseded |-> FALSE, evicted |-> FALSE]
NoRecord == [made |-> FALSE, emptyText |-> FALSE, shortSignature |-> FALSE, changed |-> FALSE]
NoLookup == [made |-> FALSE, text |-> <<>>, signature |-> NoSignature, at |-> 0,
             via |-> "none", entryAt |-> 0]

\* the key under which a lookup of the content finds its entry, and the
\* time at which that entry was inserted
LookupVia(map, thinkingContent) ==
    IF Len(thinkingContent) = 0 THEN "none"
    ELSE IF MapHas(map, hashContent(thinkingContent)) THEN "full"
    ELSE IF MapHas(map, hashPrefix(thinkingContent)) THEN "prefix"
    ELSE "none"
LookupEntryAt(map, thinkingContent) ==
    IF LookupVia(map, thinkingContent) = "full"
    THEN MapGet(map, hashContent(thinkingContent)).timestamp
    ELSE IF LookupVia(map, thinkingContent) = "prefix"
    THEN MapGet(map, hashPrefix(thinkingContent)).timestamp
    ELSE 0

\* history of the tracked record() call across another record() call
TrackedAfterRecord(thinkingContent, signature) ==
    IF tracked = NoTracked \/ ~RecordAccepted(thinkingContent, signature) THEN tracked
    ELSE [tracked EXCEPT
            !.superseded = @ \/ normalizeContent(thinkingContent) = normalizeContent(tracked.text),
            !.prefixSuperseded = @ \/ hashPrefix(thinkingContent) = hashPrefix(tracked.text),
            !.evicted = @ \/ (Len(thinkingSignatureCache) >= MAX_CACHE_SIZE
                              /\ EvictionRuns(thinkingSignatureCache, CacheNow))]

\* a response path records (text, signature); the history variable follows one
\* accepted record() call of the run, any of them
CacheRecord(thinkingContent, signature) ==
    /\ recordCount < MaxRecords
    /\ recordCount' = IF RecordAccepted(thinkingContent, signature)
                      THEN recordCount + 1 ELSE recordCount
    /\ thinkingSignatureCache' =
           cacheThinkingSignature(thinkingSignatureCache, thinkingContent, signature, CacheNow)
    /\ \/ tracked' = TrackedAfterRecord(thinkingContent, signature)
       \/ /\ tracked = NoTracked
          /\ RecordAccepted(thinkingContent, signature)
          /\ tracked' = [text |-> thinkingContent, signature |-> signature, at |-> CacheNow,
                         superseded |-> FALSE, prefixSuperseded |-> FALSE, evicted |-> FALSE]
    /\ lastRecord' = [made |-> TRUE, emptyText |-> thinkingContent = <<>>,
                      shortSignature |-> signature.len < 50,
                      changed |-> thinkingSignatureCache' # thinkingSignatureCache]
    /\ lastRestore' = NoRestore
    /\ lastLookup' = NoLookup
    /\ lastFilter' = NoFilter
    /\ UNCHANGED cacheClock

\* a request path restores the signatures of one assistant content array
CacheRestore(content) ==
    LET r == restoreThinkingSignatures(content, thinkingSignatureCache, CacheNow) IN
    /\ thinkingSignatureCache' = r.cache
    /\ lastRestore' = [in |-> content, out |-> r.out, at |-> CacheNow,
                       again |-> restoreThinkingSignatures(r.out, r.cache, CacheNow).out]
    /\ lastRecord' = NoRecord
    /\ lastLookup' = NoLookup
    /\ lastFilter' = NoFilter
    /\ UNCHANGED <<cacheClock, recordCount, tracked>>

\* a caller looks one thinking text up
CacheLookup(thinkingContent) ==
    LET r == getCachedThinkingSignature(thinkingSignatureCache, thinkingContent, CacheNow) IN
    /\ thinkingSignatureCache' = r.cache
    /\ lastLookup' = [made |-> TRUE, text |-> thinkingContent, signature |-> r.signature,
                      at |-> CacheNow,
                      via |-> LookupVia(thinkingSignatureCache, thinkingContent),
                      entryAt |-> LookupEntryAt(thinkingSignatureCache, thinkingContent)]
    /\ lastRecord' = NoRecord
    /\ lastRestore' = NoRestore
    /\ lastFilter' = NoFilter
    /\ UNCHANGED <<cacheClock, recordCount, tracked>>

\* the periodic sweep: the exported cleanupCache
CacheSweep ==
    /\ thinkingSignatureCache' = cleanupCache(thinkingSignatureCache, CacheNow)
    /\ tracked' = IF tracked # NoTracked /\ EvictionRuns(thinkingSignatureCache, CacheNow)
                  THEN [tracked EXCEPT !.evicted = TRUE] ELSE tracked
    /\ lastRestore' = NoRestore
    /\ lastRecord' = NoRecord
    /\ lastLookup' = NoLookup
    /\ lastFilter' = NoFilter
    /\ UNCHANGED <<cacheClock, recordCount>>

\* time passes; the time that passes before anything is cached changes nothing
CacheTick(limit) ==
    /\ cacheClock < limit
    /\ Len(thinkingSignatureCache) > 0
    /\ cacheClock' = cacheClock + 1
    /\ lastRestore' = NoRestore
    /\ lastRecord' = NoRecord
    /\ lastLookup' = NoLookup
    /\ lastFilter' = NoFilter
    /\ UNCHANGED <<thinkingSignatureCache, recordCount, tracked>>

CacheStart ==
    /\ thinkingSignatureCache = <<>>
    /\ cacheClock = 0
    /\ recordCount = 0
    /\ lastRestore = NoRestore
    /\ tracked = NoTracked
    /\ lastRecord = NoRecord
    /\ lastLookup = NoLookup
    /\ lastFilter = NoFilter

CacheNext ==
    \/ \E r \in RestoreRecords : CacheRecord(r[1], r[2])
    \/ \E c \in RestoreContents : CacheRestore(c)
    \/ CacheSweep
    \/ CacheTick(MaxCacheClock)

\* the cache with direct lookups in place of restore passes
LookupNext ==
    \/ \E r \in LookupRecords : CacheRecord(r[1], r[2])
    \/ \E t \in ThinkingTexts : CacheLookup(t)
    \/ CacheSweep
    \/ CacheTick(MaxLookupClock)

(***************************************************************************)
(* filterUnsignedThinkingBlocks: format/thinking-utils.js lines 10-145     *)
(*                                                                         *)
(* A part is a record that holds the fields the object has; a field that   *)
(* is undefined is not in the record's domain.                             *)
(***************************************************************************)
Has(part, field) == field \in DOMAIN part

\* isThinkingPart
isThinkingPart(part) ==
    \/ (Has(part, "type") /\ part.type \in {"thinking", "redacted_thinking"})
    \/ Has(part, "thinking")
    \/ (Has(part, "thought") /\ part.thought = TRUE)

\* hasValidSignature accepting every signature that is not empty
hasValidSignature_NonEmpty(part) ==
    LET field == IF Has(part, "thought") /\ part.thought = TRUE
                 THEN "thoughtSignature" ELSE "signature"
    IN  Has(part, field) /\ part[field].len > 0

\* hasValidSignature: thoughtSignature of a thought part, signature otherwise
hasValidSignature(part) ==
    LET field == IF Has(part, "thought") /\ part.thought = TRUE
                 THEN "thoughtSignature" ELSE "signature"
    IN  Has(part, field) /\ part[field].len >= MIN_SIGNATURE_LENGTH

\* sanitizeThinkingPart: keep only the allowed fields
sanitizeThinkingPart(part) ==
    IF Has(part, "thought") /\ part.thought = TRUE
    THEN [f \in DOMAIN part \cap {"thought", "text", "thoughtSignature"} |-> part[f]]
    ELSE IF (Has(part, "type") /\ part.type = "thinking") \/ Has(part, "thinking")
    THEN [f \in {"type"} \cup (DOMAIN part \cap {"thinking", "signature"}) |->
             IF f = "type" THEN "thinking" ELSE part[f]]
    ELSE part

\* item.thinking || item.text || ''
ThinkingContentOf(item) ==
    IF Has(item, "thinking") /\ Len(item.thinking) > 0 THEN item.thinking
    ELSE IF Has(item, "text") /\ Len(item.text) > 0 THEN item.text
    ELSE <<>>

\* { ...item, thought: true, text: thinkingContent, thoughtSignature: cachedSignature }
RestoredItem(item, thinkingContent, cachedSignature) ==
    [f \in DOMAIN item \cup {"thought", "text", "thoughtSignature"} |->
        IF f = "thought" THEN TRUE
        ELSE IF f = "text" THEN thinkingContent
        ELSE IF f = "thoughtSignature" THEN cachedSignature
        ELSE item[f]]

\* filterContentArray: [out, cache], item by item from the left
RECURSIVE filterFrom(_, _, _, _, _)
filterFrom(contentArray, i, filtered, map, now) ==
    IF i > Len(contentArray) THEN [out |-> filtered, cache |-> map]
    ELSE LET item == contentArray[i] IN
         IF ~isThinkingPart(item)
         THEN filterFrom(contentArray, i + 1, Append(filtered, item), map, now)
         ELSE IF hasValidSignature(item)
         THEN filterFrom(contentArray, i + 1, Append(filtered, sanitizeThinkingPart(item)),
                         map, now)
         ELSE LET thinkingContent == ThinkingContentOf(item)
                  got == getCachedThinkingSignature(map, thinkingContent, now) IN
              IF Len(thinkingContent) > 0 /\ got.signature.len > 0
              THEN filterFrom(contentArray, i + 1,
                       Append(filtered, sanitizeThinkingPart(
                           RestoredItem(item, thinkingContent, got.signature))),
                       got.cache, now)
              ELSE filterFrom(contentArray, i + 1, filtered, got.cache, now)

filterContentArray(contentArray, map, now) == filterFrom(contentArray, 1, <<>>, map, now)

\* filterUnsignedThinkingBlocks: contents.map(...), [out, cache]
RECURSIVE filterContentsFrom(_, _, _, _, _)
filterContentsFrom(contents, i, done, map, now) ==
    IF i > Len(contents) THEN [out |-> done, cache |-> map]
    ELSE LET r == filterContentArray(contents[i].parts, map, now) IN
         filterContentsFrom(contents, i + 1,
             Append(done, [contents[i] EXCEPT !.parts = r.out]), r.cache, now)

filterUnsignedThinkingBlocks(contents, map, now) ==
    filterContentsFrom(contents, 1, <<>>, map, now)

\* upstream parts
TextPart(text) == [text |-> text]
FunctionCallPart == [functionCall |-> "f"]
ThoughtPart(text, signature) == [thought |-> TRUE, text |-> text, thoughtSignature |-> signature]
UnsignedThoughtPart(text) == [thought |-> TRUE, text |-> text]

\* what the response paths record, and the arrays the request paths hand to
\* the two restore passes, in runs with both passes
PassRecords == { << <<"a", "b", "c">>, [id |-> "S1", len |-> 50] >> }

PassContents ==
    { << TextBlock, ThinkingBlock(<<"a", "b", "c">>, NoSignature),
         [type |-> "redacted_thinking", data |-> "d"],
         ThinkingBlock(<<"a", " ", "b">>, NoSignature),
         [type |-> "tool_use", id |-> "t1"] >>,
      << ThinkingBlock(<<" ", "a", "b", "c">>, ShortSignature),
         [type |-> "text", text |-> <<"b">>],
         ThinkingBlock(<<"a", " ", "b">>, [id |-> "S2", len |-> 50]), TextBlock >>,
      << ThinkingBlock(<<"a", " ", "b">>, ShortSignature), TextBlock >> }

FilterContents ==
    { << [role |-> "user", parts |-> << TextPart(<<"a">>) >>],
         [role |-> "model",
          parts |-> << TextPart(<<"b">>), UnsignedThoughtPart(<<"a", "b", "c">>),
                       FunctionCallPart, UnsignedThoughtPart(<<"a", " ", "b">>),
                       TextPart(<<"a">>) >>] >>,
      << [role |-> "model",
          parts |-> << ThoughtPart(<<"a", " ", "b">>, ShortSignature), TextPart(<<"a">>),
                       ThoughtPart(<<"a", " ", "b">>, [id |-> "S2", len |-> 50]),
                       [type |-> "thinking", thinking |-> <<" ", "a", "b", "c">>],
                       FunctionCallPart >>] >>,
      << [role |-> "model",
          parts |-> << [type |-> "redacted_thinking", data |-> "d"],
                       [type |-> "thinking", thinking |-> <<"a", " ", "b">>,
                        signature |-> [id |-> "S2", len |-> 50], cache_control |-> TRUE],
                       FunctionCallPart >>] >> }

\* a request path filters the thinking parts of upstream contents
CacheFilter(contents) ==
    LET r == filterUnsignedThinkingBlocks(contents, thinkingSignatureCache, CacheNow) IN
    /\ thinkingSignatureCache' = r.cache
    /\ lastFilter' = [made |-> TRUE, in |-> contents, out |-> r.out, at |-> CacheNow]
    /\ lastRecord' = NoRecord
    /\ lastRestore' = NoRestore
    /\ lastLookup' = NoLookup
    /\ UNCHANGED <<cacheClock, recordCount, tracked>>

\* the cache with both restore passes
PassNext ==
    \/ \E r \in PassRecords : CacheRecord(r[1], r[2])
    \/ \E c \in PassContents : CacheRestore(c)
    \/ \E c \in FilterContents : CacheFilter(c)
    \/ CacheTick(MaxLookupClock)

(***************************************************************************)
(* Thinking integrity: format/thinking-utils.js lines 147-626              *)
(*                                                                         *)
(* A message is [role, content], content being an array of blocks.  A      *)
(* thinking block without signature has the signature NoSignature; a null  *)
(* array element is NullBlock.  The request converter that calls the       *)
(* passes is not part of these sources; the passes run in the documented   *)
(* order: restore, reorder, trailing-drop, leading thinking, tool-loop     *)
(* closure, with thinking enabled.                                         *)
(***************************************************************************)
MaxContentLen == 3
MaxMessages == 3

NullBlock == [null |-> TRUE]
RedactedBlock == [type |-> "redacted_thinking", data |-> "d"]
ToolUseBlock(id) == [type |-> "tool_use", id |-> id]
ToolResultBlock(id) == [type |-> "tool_result", tool_use_id |-> id]
Text(text) == [type |-> "text", text |-> text]

IsNull(block) == Has(block, "null")
TypeOf(block) == IF Has(block, "type") THEN block.type ELSE "undefined"

\* the signature test of the Anthropic passes: block.signature && length >= MIN
SignedField(block, field) ==
    Has(block, field) /\ block[field].len > 0 /\ block[field].len >= MIN_SIGNATURE_LENGTH

MapBlocks(f(_), content) == [i \in 1..Len(content) |-> f(content[i])]

\* removeTrailingThinkingBlocks: the index at which the kept part ends
RECURSIVE trailingEnd(_, _)
trailingEnd(content, i) ==
    IF i < 1 THEN 0
    ELSE IF IsNull(content[i]) THEN i
    ELSE IF isThinkingPart(content[i]) /\ ~hasValidSignature(content[i])
         THEN trailingEnd(content, i - 1)
         ELSE i

\* removeTrailingThinkingBlocks that stops after one removed block
removeTrailingThinkingBlocks_OneBlock(content) ==
    IF Len(content) = 0 THEN content
    ELSE IF trailingEnd(content, Len(content)) < Len(content)
    THEN SubSeq(content, 1, Len(content) - 1)
    ELSE content

removeTrailingThinkingBlocks(content) ==
    IF Len(content) = 0 THEN content
    ELSE SubSeq(content, 1, trailingEnd(content, Len(content)))

\* block.text && block.text.trim().length > 0
MeaningfulText(block) == Has(block, "text") /\ Len(normalizeContent(block.text)) > 0

\* reorderAssistantContent with the tool_use blocks put before the text blocks
reorderAssistantContent_ToolUseSecond(content) ==
    IF Len(content) = 1
    THEN IF ~IsNull(content[1]) /\ TypeOf(content[1]) \in {"thinking", "redacted_thinking"}
         THEN << sanitizeAnthropicThinkingBlock(content[1]) >>
         ELSE content
    ELSE LET blocks == SelectSeq(content, LAMBDA b : ~IsNull(b))
             thinkingBlocks ==
                 MapBlocks(sanitizeAnthropicThinkingBlock,
                     SelectSeq(blocks, LAMBDA b : TypeOf(b) \in {"thinking", "redacted_thinking"}))
             toolUseBlocks == SelectSeq(blocks, LAMBDA b : TypeOf(b) = "tool_use")
             textBlocks ==
                 SelectSeq(blocks, LAMBDA b :
                     /\ TypeOf(b) \notin {"thinking", "redacted_thinking", "tool_use"}
                     /\ (TypeOf(b) = "text" => MeaningfulText(b)))
         IN  thinkingBlocks \o toolUseBlocks \o textBlocks

\* reorderAssistantContent with the tool_use blocks pushed to the front of
\* their list, which reverses their order
reorderAssistantContent_ToolUseReversed(content) ==
    IF Len(content) = 1
    THEN IF ~IsNull(content[1]) /\ TypeOf(content[1]) \in {"thinking", "redacted_thinking"}
         THEN << sanitizeAnthropicThinkingBlock(content[1]) >>
         ELSE content
    ELSE LET blocks == SelectSeq(content, LAMBDA b : ~IsNull(b))
             thinkingBlocks ==
                 MapBlocks(sanitizeAnthropicThinkingBlock,
                     SelectSeq(blocks, LAMBDA b : TypeOf(b) \in {"thinking", "redacted_thinking"}))
             toolUseBlocks == SelectSeq(blocks, LAMBDA b : TypeOf(b) = "tool_use")
             textBlocks ==
                 SelectSeq(blocks, LAMBDA b :
                     /\ TypeOf(b) \notin {"thinking", "redacted_thinking", "tool_use"}
                     /\ (TypeOf(b) = "text" => MeaningfulText(b)))
         IN  thinkingBlocks \o textBlocks
                 \o [i \in 1..Len(toolUseBlocks) |-> toolUseBlocks[Len(toolUseBlocks) + 1 - i]]

\* reorderAssistantContent
reorderAssistantContent(content) ==
    IF Len(content) = 1
    THEN IF ~IsNull(content[1]) /\ TypeOf(content[1]) \in {"thinking", "redacted_thinking"}
         THEN << sanitizeAnthropicThinkingBlock(content[1]) >>
         ELSE content
    ELSE LET blocks == SelectSeq(content, LAMBDA b : ~IsNull(b))
             thinkingBlocks ==
                 MapBlocks(sanitizeAnthropicThinkingBlock,
                     SelectSeq(blocks, LAMBDA b : TypeOf(b) \in {"thinking", "redacted_thinking"}))
             toolUseBlocks == SelectSeq(blocks, LAMBDA b : TypeOf(b) = "tool_use")
             textBlocks ==
                 SelectSeq(blocks, LAMBDA b :
                     /\ TypeOf(b) \notin {"thinking", "redacted_thinking", "tool_use"}
                     /\ (TypeOf(b) = "text" => MeaningfulText(b)))
         IN  thinkingBlocks \o textBlocks \o toolUseBlocks

IsAssistant(message) == message.role \in {"assistant", "model"}

\* message.content || message.parts
ContentOf(message) == IF Has(message, "content") THEN message.content ELSE message.parts

\* messageHasValidThinking
messageHasValidThinking(message) ==
    \E i \in 1..Len(ContentOf(message)) :
        /\ isThinkingPart(ContentOf(message)[i])
        /\ (SignedField(ContentOf(message)[i], "signature")
              \/ SignedField(ContentOf(message)[i], "thoughtSignature"))

\* messageHasToolUse
messageHasToolUse(message) ==
    \E i \in 1..Len(ContentOf(message)) :
        TypeOf(ContentOf(message)[i]) = "tool_use" \/ Has(ContentOf(message)[i], "functionCall")

\* messageHasToolResult
messageHasToolResult(message) ==
    \E i \in 1..Len(ContentOf(message)) :
        \/ TypeOf(ContentOf(message)[i]) = "tool_result"
        \/ Has(ContentOf(message)[i], "functionResponse")

\* isPlainUserMessage
isPlainUserMessage(message) == message.role = "user" /\ ~messageHasToolResult(message)

\* index of the last assistant message, 0 when there is none
LastAssistantIdx(messages) ==
    IF \E i \in 1..Len(messages) : IsAssistant(messages[i])
    THEN CHOOSE i \in 1..Len(messages) :
             IsAssistant(messages[i]) /\ \A j \in (i + 1)..Len(messages) : ~IsAssistant(messages[j])
    ELSE 0

\* analyzeConversationState
analyzeConversationState(messages) ==
    LET lastAssistantIdx == LastAssistantIdx(messages) IN
    IF lastAssistantIdx = 0
    THEN [inToolLoop |-> FALSE, interruptedTool |-> FALSE, turnHasThinking |-> FALSE,
          toolResultCount |-> 0, lastAssistantIdx |-> 0]
    ELSE LET after == (lastAssistantIdx + 1)..Len(messages)
             hasToolUse == messageHasToolUse(messages[lastAssistantIdx])
             toolResultCount == Cardinality({i \in after : messageHasToolResult(messages[i])})
             hasPlainUserMessageAfter == \E i \in after : isPlainUserMessage(messages[i])
         IN  [inToolLoop |-> hasToolUse /\ toolResultCount > 0,
              interruptedTool |-> hasToolUse /\ toolResultCount = 0 /\ hasPlainUserMessageAfter,
              turnHasThinking |-> messageHasValidThinking(messages[lastAssistantIdx]),
              toolResultCount |-> toolResultCount,
              lastAssistantIdx |-> lastAssistantIdx]

\* needsThinkingRecovery
needsThinkingRecovery(messages) ==
    LET state == analyzeConversationState(messages)
    IN  (state.inToolLoop \/ state.interruptedTool) /\ ~state.turnHasThinking

\* stripAllThinkingBlocks that removes the blocks of type thinking only
stripAllThinkingBlocks_TypedOnly(messages) ==
    [i \in 1..Len(messages) |->
        LET filtered == SelectSeq(ContentOf(messages[i]), LAMBDA b : TypeOf(b) # "thinking")
        IN  IF Has(messages[i], "content")
            THEN [messages[i] EXCEPT !.content =
                     IF Len(filtered) > 0 THEN filtered ELSE << Text(<<>>) >>]
            ELSE [messages[i] EXCEPT !.parts =
                     IF Len(filtered) > 0 THEN filtered ELSE << [text |-> <<>>] >>]]

\* stripAllThinkingBlocks
stripAllThinkingBlocks(messages) ==
    [i \in 1..Len(messages) |->
        LET filtered == SelectSeq(ContentOf(messages[i]), LAMBDA b : ~isThinkingPart(b))
        IN  IF Has(messages[i], "content")
            THEN [messages[i] EXCEPT !.content =
                     IF Len(filtered) > 0 THEN filtered ELSE << Text(<<>>) >>]
            ELSE [messages[i] EXCEPT !.parts =
                     IF Len(filtered) > 0 THEN filtered ELSE << [text |-> <<>>] >>]]

InsertAt(seq, idx, e) == SubSeq(seq, 1, idx - 1) \o <<e>> \o SubSeq(seq, idx, Len(seq))

InterruptedMessage ==
    [role |-> "assistant", content |-> << Text(<<"[Tool call was interrupted.]">>) >>]
\* '[Tool execution completed.]' for a count of one, '[N tool executions
\* completed.]' with the count N otherwise
CompletedMessage(toolResultCount) ==
    [role |-> "assistant",
     content |-> << Text(IF toolResultCount = 1 THEN <<"[Tool execution completed.]">>
                         ELSE <<"[", ToString(toolResultCount),
                                " tool executions completed.]">>) >>]
ContinueMessage == [role |-> "user", content |-> << Text(<<"[Continue]">>) >>]

\* closeToolLoopForThinking that closes a tool loop with the '[Continue]'
\* message alone
closeToolLoopForThinking_ContinueOnly(messages) ==
    LET state == analyzeConversationState(messages)
        modified == stripAllThinkingBlocks(messages)
    IN  IF ~state.inToolLoop /\ ~state.interruptedTool THEN messages
        ELSE IF state.interruptedTool
        THEN InsertAt(modified, state.lastAssistantIdx + 1, InterruptedMessage)
        ELSE Append(modified, ContinueMessage)

\* closeToolLoopForThinking with the synthetic message put after the user's
closeToolLoopForThinking_AfterUser(messages) ==
    LET state == analyzeConversationState(messages)
        modified == stripAllThinkingBlocks(messages)
    IN  IF ~state.inToolLoop /\ ~state.interruptedTool THEN messages
        ELSE IF state.interruptedTool
        THEN Append(modified, InterruptedMessage)
        ELSE modified \o << CompletedMessage(state.toolResultCount), ContinueMessage >>

\* closeToolLoopForThinking
closeToolLoopForThinking(messages) ==
    LET state == analyzeConversationState(messages)
        modified == stripAllThinkingBlocks(messages)
    IN  IF ~state.inToolLoop /\ ~state.interruptedTool THEN messages
        ELSE IF state.interruptedTool
        THEN InsertAt(modified, state.lastAssistantIdx + 1, InterruptedMessage)
        ELSE modified \o << CompletedMessage(state.toolResultCount), ContinueMessage >>

\* the placeholder carries no signature field
PlaceholderThinking ==
    [type |-> "thinking", thinking |-> <<"[Continuing from previous context]">>]

\* ensureLastAssistantHasThinking with the placeholder put at the end
ensureLastAssistantHasThinking_Appended(messages) ==
    LET lastAssistantIdx == LastAssistantIdx(messages) IN
    IF lastAssistantIdx = 0 THEN messages
    ELSE IF \E i \in 1..Len(messages[lastAssistantIdx].content) :
                isThinkingPart(messages[lastAssistantIdx].content[i])
    THEN messages
    ELSE [messages EXCEPT ![lastAssistantIdx].content = Append(@, PlaceholderThinking)]

\* ensureLastAssistantHasThinking
ensureLastAssistantHasThinking(messages) ==
    LET lastAssistantIdx == LastAssistantIdx(messages) IN
    IF lastAssistantIdx = 0 THEN messages
    ELSE IF \E i \in 1..Len(messages[lastAssistantIdx].content) :
                isThinkingPart(messages[lastAssistantIdx].content[i])
    THEN messages
    ELSE [messages EXCEPT ![lastAssistantIdx].content = <<PlaceholderThinking>> \o @]

\* the content arrays given to reorderAssistantContent
ReorderBlocks ==
    { [type |-> "thinking", thinking |-> <<"a", "b", "c">>,
       signature |-> [id |-> "S1", len |-> 50], cache_control |-> TRUE],
      RedactedBlock, Text(<<"a">>), [type |-> "image"], Text(<<>>), Text(<<" ">>),
      ToolUseBlock("t1"), ToolUseBlock("t2"), NullBlock }
ReorderContents == UNION { [1..n -> ReorderBlocks] : n \in 0..MaxContentLen }

NoReorder == [made |-> FALSE, in |-> <<>>, out |-> <<>>, again |-> <<>>]

\* a request path reorders one assistant content array
ReorderCall(content) ==
    /\ ~lastReorder.made
    /\ lastReorder' = [made |-> TRUE, in |-> content, out |-> reorderAssistantContent(content),
                       again |-> reorderAssistantContent(reorderAssistantContent(content))]
    /\ UNCHANGED <<lastTrailing, lastClosure, pipeline>>

\* the caller takes the reordered array
ReorderReturn ==
    /\ lastReorder.made
    /\ lastReorder' = NoReorder
    /\ UNCHANGED <<lastTrailing, lastClosure, pipeline>>

NoCall == [made |-> FALSE, in |-> <<>>, out |-> <<>>]

\* the content arrays given to removeTrailingThinkingBlocks
TrailingBlocks ==
    { ThinkingBlock(<<"a">>, [id |-> "S1", len |-> 50]),
      ThinkingBlock(<<"a">>, NoSignature),
      ThinkingBlock(<<"a">>, ShortSignature),
      ThoughtPart(<<"a">>, [id |-> "S1", len |-> 50]),
      UnsignedThoughtPart(<<"a">>),
      RedactedBlock, Text(<<"a">>), NullBlock }
TrailingContents == UNION { [1..n -> TrailingBlocks] : n \in 0..MaxContentLen }

\* a request path removes the trailing thinking blocks of one content array
TrailingCall(content) ==
    /\ ~lastTrailing.made
    /\ lastTrailing' = [made |-> TRUE, in |-> content,
                        out |-> removeTrailingThinkingBlocks(content)]
    /\ UNCHANGED <<lastReorder, lastClosure, pipeline>>

TrailingReturn ==
    /\ lastTrailing.made
    /\ lastTrailing' = NoCall
    /\ UNCHANGED <<lastReorder, lastClosure, pipeline>>

TrailingNext ==
    \/ \E c \in TrailingContents : TrailingCall(c)
    \/ TrailingReturn

\* the messages of the histories given to closeToolLoopForThinking
ClosureMessages ==
    { [role |-> "user", content |-> << Text(<<"a">>) >>],
      [role |-> "user", content |-> << ToolResultBlock("t1") >>],
      [role |-> "user", content |-> << ToolResultBlock("t1"), ToolResultBlock("t2") >>],
      [role |-> "assistant", content |-> << ToolUseBlock("t1") >>],
      [role |-> "assistant",
       content |-> << ThinkingBlock(<<"a">>, NoSignature), ToolUseBlock("t1"),
                      ToolUseBlock("t2") >>],
      [role |-> "assistant",
       content |-> << ThinkingBlock(<<"a">>, [id |-> "S1", len |-> 50]), ToolUseBlock("t1") >>],
      [role |-> "assistant", content |-> << RedactedBlock >>],
      [role |-> "model", parts |-> << UnsignedThoughtPart(<<"a">>), FunctionCallPart >>],
      [role |-> "user", parts |-> << [functionResponse |-> "r"] >>] }
ClosureHistories == UNION { [1..n -> ClosureMessages] : n \in 1..MaxMessages }

\* a request path closes the tool loop of one history
ClosureCall(messages) ==
    /\ ~lastClosure.made
    /\ lastClosure' = [made |-> TRUE, in |-> messages,
                       out |-> closeToolLoopForThinking(messages)]
    /\ UNCHANGED <<lastReorder, lastTrailing, pipeline>>

ClosureReturn ==
    /\ lastClosure.made
    /\ lastClosure' = NoCall
    /\ UNCHANGED <<lastReorder, lastTrailing, pipeline>>

ClosureNext ==
    \/ \E h \in ClosureHistories : ClosureCall(h)
    \/ ClosureReturn

\* the messages of the requests that go through the passes
PipelineMessages ==
    { [role |-> "user", content |-> << Text(<<"a">>) >>],
      [role |-> "user", content |-> << ToolResultBlock("t1") >>],
      [role |-> "assistant", content |-> << ToolUseBlock("t1") >>],
      [role |-> "assistant",
       content |-> << ThinkingBlock(<<"a", " ", "b">>, [id |-> "S2", len |-> 50]),
                      ToolUseBlock("t1") >>],
      [role |-> "assistant",
       content |-> << Text(<<"a">>), ToolUseBlock("t1"),
                      ThinkingBlock(<<"a", "b", "c">>, NoSignature) >>],
      [role |-> "assistant", content |-> << Text(<<"a">>), RedactedBlock >>],
      [role |-> "assistant", content |-> << Text(<<"a">>) >>] }
Conversations == UNION { [1..n -> PipelineMessages] : n \in 1..MaxMessages }

IdlePipeline ==
    [stage |-> "idle", input |-> <<>>, messages |-> <<>>,
     validThinking |-> FALSE, recovered |-> FALSE]

\* a request arrives
PipelineStart(messages) ==
    /\ pipeline.stage = "idle"
    /\ pipeline' = [IdlePipeline EXCEPT !.stage = "received", !.input = messages,
                                        !.messages = messages]
    /\ lastReorder' = NoReorder
    /\ UNCHANGED <<cacheVars, lastTrailing, lastClosure>>

\* restoreThinkingSignatures on the content of every assistant message
RECURSIVE restoreMessagesFrom(_, _, _, _, _)
restoreMessagesFrom(messages, i, done, map, now) ==
    IF i > Len(messages) THEN [out |-> done, cache |-> map]
    ELSE IF ~IsAssistant(messages[i])
    THEN restoreMessagesFrom(messages, i + 1, Append(done, messages[i]), map, now)
    ELSE LET r == restoreThinkingSignatures(messages[i].content, map, now) IN
         restoreMessagesFrom(messages, i + 1,
             Append(done, [messages[i] EXCEPT !.content = r.out]), r.cache, now)

OnAssistantContent(f(_), messages) ==
    [i \in 1..Len(messages) |->
        IF IsAssistant(messages[i]) THEN [messages[i] EXCEPT !.content = f(@)]
        ELSE messages[i]]

PassRestore ==
    LET r == restoreMessagesFrom(pipeline.messages, 1, <<>>, thinkingSignatureCache, CacheNow) IN
    /\ pipeline.stage = "received"
    /\ pipeline' = [pipeline EXCEPT !.stage = "restored", !.messages = r.out]
    /\ thinkingSignatureCache' = r.cache
    /\ UNCHANGED <<cacheClock, lastRestore, recordCount, tracked, lastRecord, lastLookup,
                   lastFilter, lastReorder, lastTrailing, lastClosure>>

PassReorder ==
    /\ pipeline.stage = "restored"
    /\ pipeline' = [pipeline EXCEPT !.stage = "reordered",
                       !.messages = OnAssistantContent(reorderAssistantContent, @)]
    /\ UNCHANGED <<cacheVars, lastReorder, lastTrailing, lastClosure>>

PassTrailingDrop ==
    /\ pipeline.stage = "reordered"
    /\ pipeline' = [pipeline EXCEPT !.stage = "trimmed",
                       !.messages = OnAssistantContent(removeTrailingThinkingBlocks, @)]
    /\ UNCHANGED <<cacheVars, lastReorder, lastTrailing, lastClosure>>

PassLeadingThinking ==
    /\ pipeline.stage = "trimmed"
    /\ pipeline' = [pipeline EXCEPT !.stage = "led",
                       !.messages = ensureLastAssistantHasThinking(@)]
    /\ UNCHANGED <<cacheVars, lastReorder, lastTrailing, lastClosure>>

\* tool-loop closure: closeToolLoopForThinking when needsThinkingRecovery
PassClosure ==
    /\ pipeline.stage = "led"
    /\ pipeline' = [pipeline EXCEPT
           !.stage = "done",
           !.validThinking = analyzeConversationState(pipeline.messages).turnHasThinking,
           !.recovered = needsThinkingRecovery(pipeline.messages),
           !.messages = IF needsThinkingRecovery(pipeline.messages)
                        THEN closeToolLoopForThinking(@) ELSE @]
    /\ UNCHANGED <<cacheVars, lastReorder, lastTrailing, lastClosure>>

\* the converted request is handed on
PipelineFinish ==
    /\ pipeline.stage = "done"
    /\ pipeline' = IdlePipeline
    /\ UNCHANGED <<cacheVars, lastReorder, lastTrailing, lastClosure>>

IntegrityStart ==
    /\ lastReorder = NoReorder
    /\ lastTrailing = NoCall
    /\ lastClosure = NoCall
    /\ pipeline = IdlePipeline

ReorderNext ==
    \/ \E c \in ReorderContents : ReorderCall(c)
    \/ ReorderReturn

IntegrityNext ==
    \/ \E r \in PassRecords :
           /\ pipeline.stage = "idle"
           /\ recordCount = 0
           /\ CacheRecord(r[1], r[2])
           /\ UNCHANGED integrityVars
    \/ \E c \in Conversations : PipelineStart(c)
    \/ PassRestore
    \/ PassReorder
    \/ PassTrailingDrop
    \/ PassLeadingThinking
    \/ PassClosure
    \/ PipelineFinish

(***************************************************************************)
(* Proactive token refresh: utils/proactive-token-refresh.js               *)
(*                                                                         *)
(* backgroundRefreshCheck and withProactiveRefresh are async functions: an *)
(* action runs one of them from where it stands to its next await.  The    *)
(* account manager's getTokenForAccount and clearTokenCache are not part   *)
(* of these sources; they follow the account store's contract: a token     *)
(* cache, and one shared refresh-token exchange per email for concurrent   *)
(* callers.                                                                *)
(***************************************************************************)
REFRESH_BUFFER_MS == 300000
MIN_TOKEN_LIFETIME_MS == 300000
MaxExchanges == 2
MaxRefreshNow == 540000

Emails == {"a@x", "b@x"}
\* iteration order of the tokenMetadata Map: insertion order
EmailOrder == <<"a@x", "b@x">>
Ticks == {"tick1", "tick2"}
Requests == {"req1", "req2"}
\* expires_in values (seconds) the token endpoint answers
ExpiresInChoices == {200, 360}
ClockSteps == {180000}

NoMetadata == [tracked |-> FALSE]
Metadata(expiresAt) ==
    [tracked |-> TRUE, expiresAt |-> expiresAt, refreshScheduled |-> FALSE,
     lastFailedAt |-> -1, consecutiveFailures |-> 0]

\* recordTokenIssued: a new metadata object replaces the entry
recordTokenIssued(meta, email, expiresIn, now) ==
    IF expiresIn = 0 THEN meta
    ELSE IF expiresIn * 1000 < MIN_TOKEN_LIFETIME_MS THEN meta
    ELSE [meta EXCEPT ![email] = Metadata(now + expiresIn * 1000)]

RecordReplaces(expiresIn) == expiresIn # 0 /\ expiresIn * 1000 >= MIN_TOKEN_LIFETIME_MS

\* shouldRefreshToken with the test the background check uses (expired tokens left out)
shouldRefreshToken_NotExpired(meta, email, now) ==
    /\ meta[email].tracked
    /\ meta[email].expiresAt - now > 0
    /\ meta[email].expiresAt - now <= REFRESH_BUFFER_MS

\* shouldRefreshToken
shouldRefreshToken(meta, email, now) ==
    /\ meta[email].tracked
    /\ meta[email].expiresAt - now <= REFRESH_BUFFER_MS

\* getTokenStatus(email).status
getTokenStatus(meta, email, now) ==
    IF ~meta[email].tracked THEN "unknown"
    ELSE IF meta[email].expiresAt - now <= 0 THEN "expired"
    ELSE IF meta[email].expiresAt - now <= REFRESH_BUFFER_MS THEN "expiring_soon"
    ELSE "valid"

\* accountManager.clearTokenCache(email)
clearTokenCache(cache, email) == [cache EXCEPT ![email] = 0]

\* accountManager.getTokenForAccount without the shared exchange: every caller
\* that misses the cache starts an exchange of its own
getTokenForAccount_NoSharing(m, email, now) ==
    IF m.cache[email] > now THEN [m EXCEPT !.hit = TRUE]
    ELSE [m EXCEPT !.hit = FALSE,
                   !.exchange[email] = [inflight |-> @.inflight + 1, pending |-> TRUE],
                   !.started = @ + 1]

\* accountManager.getTokenForAccount up to its first await: a cached token that
\* has not expired is returned; otherwise the caller joins the exchange in flight
\* for the email or starts one.  m is [meta, cache, exchange, started, hit].
getTokenForAccount(m, email, now) ==
    IF m.cache[email] > now THEN [m EXCEPT !.hit = TRUE]
    ELSE IF m.exchange[email].pending THEN [m EXCEPT !.hit = FALSE]
    ELSE [m EXCEPT !.hit = FALSE,
                   !.exchange[email] = [inflight |-> @.inflight + 1, pending |-> TRUE],
                   !.started = @ + 1]

Manager == [meta |-> tokenMetadata, cache |-> tokenCache, exchange |-> exchange,
            started |-> exchangesStarted, hit |-> FALSE]

\* calculateBackoff
BACKOFF_BASE_MS == 60000
BACKOFF_MAX_MS == 900000
BACKOFF_MULTIPLIER == 2

RECURSIVE Pow(_, _)
Pow(b, e) == IF e = 0 THEN 1 ELSE b * Pow(b, e - 1)

calculateBackoff(failures) ==
    IF failures = 0 THEN 0
    ELSE LET backoff == BACKOFF_BASE_MS * Pow(BACKOFF_MULTIPLIER, failures - 1)
         IN  IF backoff < BACKOFF_MAX_MS THEN backoff ELSE BACKOFF_MAX_MS

\* backgroundRefreshCheck, lines 230-240: the entry is inside its backoff window
InBackoff(md, now) ==
    /\ md.lastFailedAt # -1 /\ md.lastFailedAt # 0
    /\ md.consecutiveFailures > 0
    /\ now - md.lastFailedAt < calculateBackoff(md.consecutiveFailures)

\* backgroundRefreshCheck, line 245: the entry is due
DueInBackground(md, now) ==
    md.expiresAt - now > 0 /\ md.expiresAt - now <= REFRESH_BUFFER_MS

IdleTick == [pc |-> "idle", now |-> 0, idx |-> 0, live |-> FALSE, ok |-> FALSE]

\* backgroundRefreshCheck's for loop from entry idx of the Map to its next await
\* (or to the end of the function): [m, t], t the invocation's new state
RECURSIVE checkFrom(_, _, _)
checkFrom(m, now, idx) ==
    IF idx > Len(EmailOrder) THEN [m |-> m, t |-> IdleTick]
    ELSE LET email == EmailOrder[idx]
             md == m.meta[email]
         IN  IF ~md.tracked THEN checkFrom(m, now, idx + 1)
             ELSE IF md.refreshScheduled THEN checkFrom(m, now, idx + 1)
             ELSE IF InBackoff(md, now) THEN checkFrom(m, now, idx + 1)
             ELSE IF ~DueInBackground(md, now) THEN checkFrom(m, now, idx + 1)
             ELSE LET m1 == [m EXCEPT !.meta[email].refreshScheduled = TRUE,
                                      !.cache = clearTokenCache(@, email)]
                      m2 == getTokenForAccount(m1, email, refreshNow)
                  IN  [m |-> m2,
                       t |-> [pc |-> IF m2.hit THEN "resumed" ELSE "awaiting",
                              now |-> now, idx |-> idx, live |-> TRUE, ok |-> TRUE]]

\* what a step of backgroundRefreshCheck did: the emails of the entries
\* first..last it went past without a refresh although shouldRefreshToken held
\* for them, they were outside their backoff window and no refresh was
\* scheduled; the email whose refresh it started, and whether that entry was
\* inside its backoff window; the email whose refresh settled, with the
\* entry's consecutiveFailures before and after the step
NoTick == [made |-> FALSE, passed |-> {}, started |-> "", startedInBackoff |-> FALSE,
           settled |-> "", ok |-> FALSE, before |-> 0, after |-> 0]

PassedOver(meta, now, first, last) ==
    { EmailOrder[i] : i \in { j \in first..last :
          /\ shouldRefreshToken(meta, EmailOrder[j], now)
          /\ ~meta[EmailOrder[j]].refreshScheduled
          /\ ~InBackoff(meta[EmailOrder[j]], now) } }

\* r is the result of checkFrom(m, now, first)
TickDid(m, now, first, r) ==
    [NoTick EXCEPT
        !.made = TRUE,
        !.passed = PassedOver(m.meta, now, first,
                              IF r.t.pc = "idle" THEN Len(EmailOrder) ELSE r.t.idx - 1),
        !.started = IF r.t.pc = "idle" THEN "" ELSE EmailOrder[r.t.idx],
        !.startedInBackoff = r.t.pc # "idle" /\ InBackoff(m.meta[EmailOrder[r.t.idx]], now)]

ApplyManager(m) ==
    /\ tokenMetadata' = m.meta
    /\ tokenCache' = m.cache
    /\ exchange' = m.exchange
    /\ exchangesStarted' = m.started

\* setInterval / setTimeout fires backgroundRefreshCheck: lines 218-246
TickStart(t) ==
    /\ tick[t].pc = "idle"
    /\ LET r == checkFrom(Manager, refreshNow, 1) IN
       /\ r.m.started <= MaxExchanges
       /\ ApplyManager(r.m)
       /\ tick' = [tick EXCEPT ![t] = r.t]
       /\ lastTick' = TickDid(Manager, refreshNow, 1, r)
    /\ UNCHANGED <<refreshNow, request>>

\* the awaited getTokenForAccount settled: lines 260-277, then the loop goes on.
\* The invocation writes to the metadata object it read from the Map; when
\* recordTokenIssued has replaced that object in the meantime the writes are lost.
TickResume(t) ==
    /\ tick[t].pc = "resumed"
    /\ LET email == EmailOrder[tick[t].idx]
           md == tokenMetadata[email]
           written == IF tick[t].ok
                      THEN [md EXCEPT !.lastFailedAt = -1, !.consecutiveFailures = 0,
                                      !.refreshScheduled = FALSE]
                      ELSE [md EXCEPT !.lastFailedAt = tick[t].now,
                                      !.consecutiveFailures = @ + 1,
                                      !.refreshScheduled = FALSE]
           m1 == IF tick[t].live THEN [Manager EXCEPT !.meta[email] = written] ELSE Manager
           r == checkFrom(m1, tick[t].now, tick[t].idx + 1)
       IN  /\ r.m.started <= MaxExchanges
           /\ ApplyManager(r.m)
           /\ tick' = [tick EXCEPT ![t] = r.t]
           /\ lastTick' = [TickDid(m1, tick[t].now, tick[t].idx + 1, r) EXCEPT
                              !.settled = email, !.ok = tick[t].ok,
                              !.before = md.consecutiveFailures,
                              !.after = m1.meta[email].consecutiveFailures]
    /\ UNCHANGED <<refreshNow, request>>

\* what the token cache holds for the email: nothing, a token that has expired,
\* or a token that has not
CachedToken(cache, email, now) ==
    IF cache[email] = 0 THEN "none"
    ELSE IF cache[email] <= now THEN "expired" ELSE "fresh"

\* needed, expired, refresh and token record what the invocation saw and did
IdleRequest == [pc |-> "idle", email |-> "", needed |-> FALSE, expired |-> FALSE,
                inBackoff |-> FALSE, refresh |-> "none", token |-> "none"]

\* withProactiveRefresh up to its await (lines 343-355), or to operation()
\* when no refresh is needed
RequestStart(q, email) ==
    /\ request[q].pc = "idle"
    /\ LET needed == shouldRefreshToken(tokenMetadata, email, refreshNow)
           expired == getTokenStatus(tokenMetadata, email, refreshNow) = "expired"
           inBackoff == tokenMetadata[email].tracked
                            /\ InBackoff(tokenMetadata[email], refreshNow)
           m1 == [Manager EXCEPT !.cache = clearTokenCache(@, email)]
           m2 == getTokenForAccount(m1, email, refreshNow)
       IN  IF needed
           THEN /\ m2.started <= MaxExchanges
                /\ ApplyManager(m2)
                /\ request' = [request EXCEPT ![q] =
                       [pc |-> IF m2.hit THEN "resumed" ELSE "awaiting", email |-> email,
                        needed |-> TRUE, expired |-> expired, inBackoff |-> inBackoff,
                        refresh |-> IF m2.hit THEN "ok" ELSE "pending", token |-> "none"]]
           ELSE /\ request' = [request EXCEPT ![q] =
                       [pc |-> "operation", email |-> email, needed |-> FALSE,
                        expired |-> expired, inBackoff |-> inBackoff, refresh |-> "none",
                        token |-> CachedToken(tokenCache, email, refreshNow)]]
                /\ UNCHANGED <<tokenMetadata, tokenCache, exchange, exchangesStarted>>
    /\ lastTick' = NoTick
    /\ UNCHANGED <<refreshNow, tick>>

\* the awaited refresh settled (a failure is caught and logged): operation() runs
RequestResume(q) ==
    /\ request[q].pc = "resumed"
    /\ request' = [request EXCEPT ![q].pc = "operation",
                                  ![q].token = CachedToken(tokenCache, request[q].email, refreshNow)]
    /\ lastTick' = NoTick
    /\ UNCHANGED <<tokenMetadata, tokenCache, exchange, exchangesStarted, refreshNow, tick>>

\* the operation ends and the caller's next request may come
RequestEnd(q) ==
    /\ request[q].pc = "operation"
    /\ request' = [request EXCEPT ![q] = IdleRequest]
    /\ lastTick' = NoTick
    /\ UNCHANGED <<tokenMetadata, tokenCache, exchange, exchangesStarted, refreshNow, tick>>

\* a refresh-token exchange for the email settles.  expiresIn = 0 stands for a
\* failed exchange.  On success the token is cached and written back to the
\* registry; every caller awaiting the email's token is resumed.
ExchangeSettles(email, expiresIn) ==
    /\ exchange[email].inflight > 0
    /\ exchange' = [exchange EXCEPT ![email] =
                        [inflight |-> @.inflight - 1, pending |-> FALSE]]
    /\ tokenCache' = IF expiresIn > 0
                     THEN [tokenCache EXCEPT ![email] = refreshNow + expiresIn * 1000]
                     ELSE tokenCache
    /\ tokenMetadata' = recordTokenIssued(tokenMetadata, email, expiresIn, refreshNow)
    /\ tick' = [t \in Ticks |->
                  IF tick[t].pc = "awaiting" /\ EmailOrder[tick[t].idx] = email
                  THEN [tick[t] EXCEPT !.pc = "resumed", !.ok = expiresIn > 0,
                                       !.live = ~RecordReplaces(expiresIn)]
                  ELSE IF tick[t].pc = "resumed" /\ EmailOrder[tick[t].idx] = email
                            /\ RecordReplaces(expiresIn)
                  THEN [tick[t] EXCEPT !.live = FALSE]
                  ELSE tick[t]]
    /\ request' = [q \in Requests |->
                  IF request[q].pc = "awaiting" /\ request[q].email = email
                  THEN [request[q] EXCEPT !.pc = "resumed",
                                          !.refresh = IF expiresIn > 0 THEN "ok" ELSE "failed"]
                  ELSE request[q]]
    /\ lastTick' = NoTick
    /\ UNCHANGED <<exchangesStarted, refreshNow>>

\* time passes; continuations of a settled promise run before any timer does
RefreshClock(step) ==
    /\ refreshNow + step <= MaxRefreshNow
    /\ \A t \in Ticks : tick[t].pc # "resumed"
    /\ \A q \in Requests : request[q].pc # "resumed"
    /\ refreshNow' = refreshNow + step
    /\ lastTick' = NoTick
    /\ UNCHANGED <<tokenMetadata, tokenCache, exchange, exchangesStarted, tick, request>>

\* the tokens were issued at time 0, the first account's with a lifetime of
\* 360 s and the other's with a lifetime of 720 s
InitialExpiry == [e \in Emails |-> IF e = EmailOrder[1] THEN 360000 ELSE 720000]
RefreshStart ==
    /\ tokenMetadata = [e \in Emails |-> Metadata(InitialExpiry[e])]
    /\ tokenCache = InitialExpiry
    /\ exchange = [e \in Emails |-> [inflight |-> 0, pending |-> FALSE]]
    /\ exchangesStarted = 0
    /\ refreshNow = 0
    /\ tick = [t \in Ticks |-> IdleTick]
    /\ request = [q \in Requests |-> IdleRequest]
    /\ lastTick = NoTick

RefreshNext ==
    \/ \E t \in Ticks : TickStart(t)
    \/ \E t \in Ticks : TickResume(t)
    \/ \E q \in Requests, e \in Emails : RequestStart(q, e)
    \/ \E q \in Requests : RequestResume(q)
    \/ \E q \in Requests : RequestEnd(q)
    \/ \E e \in Emails, x \in ExpiresInChoices \cup {0} : ExchangeSettles(e, x)
    \/ \E d \in ClockSteps : RefreshClock(d)

(***************************************************************************)
(* Account scheduler: executeWithRetry and its helpers (part_002)          *)
(*                                                                         *)
(* The account manager (sticky pin, per-model rate limits, invalid flags)  *)
(* and the fallback configuration are not part of these sources; they      *)
(* follow the account store's and the scheduler's description.  A call is  *)
(* one sendMessage invocation; an action runs it from where it stands to   *)
(* its next await (a sleep, the token, an upstream answer).                *)
(***************************************************************************)
MAX_RETRIES == 5
MAX_WAIT_BEFORE_ERROR_MS == 120000
WAIT_BUFFER_MS == 500
Max429 == 2

Accounts == {"A", "B"}
AccountOrder == <<"A", "B">>
Models == {"M", "F"}
RequestModels == {"M"}
Callers == {"call1"}
ENDPOINTS == <<"daily", "prod">>
\* reset delays a 429 carries (parseResetTime)
ResetDelays == {30000, 120000, 150000}

\* fallback-config: M and F name each other as fallback model
getFallbackModel(model) ==
    IF model = "M" THEN "F" ELSE IF model = "F" THEN "M" ELSE "none"

getAccountCount == Cardinality(Accounts)

Max(a, b) == IF a >= b THEN a ELSE b
SetMin(S) == CHOOSE x \in S : \A y \in S : x <= y

\* ---- account manager; mgr is [sticky, rateLimits, isInvalid, clearedByReset]

\* a rate-limit entry is active while its reset time lies ahead
isRateLimited(mgr, email, model, now) == mgr.rateLimits[email][model] > now

isAvailable(mgr, email, model, now) ==
    ~mgr.isInvalid[email] /\ ~isRateLimited(mgr, email, model, now)

IndexOf(email) == CHOOSE i \in 1..Len(AccountOrder) : AccountOrder[i] = email

\* the accounts in rotation order after the given one, the given one last
Rotation(email) ==
    [i \in 1..Len(AccountOrder) |->
        AccountOrder[((IndexOf(email) - 1 + i) % Len(AccountOrder)) + 1]]

\* pickNext: the next available account in rotation becomes the sticky one
pickNext(mgr, model, now) ==
    LET rot == Rotation(mgr.sticky[model])
        free == {i \in DOMAIN rot : isAvailable(mgr, rot[i], model, now)}
    IN  IF free = {} THEN [mgr |-> mgr, account |-> "none"]
        ELSE [mgr |-> [mgr EXCEPT !.sticky[model] = rot[SetMin(free)]],
              account |-> rot[SetMin(free)]]

getCurrentStickyAccount(mgr, model, now) ==
    IF isAvailable(mgr, mgr.sticky[model], model, now) THEN mgr.sticky[model] ELSE "none"

\* pickStickyAccount: the sticky account when available; else another available
\* account at once; else wait for the sticky one when its reset is at most
\* MAX_WAIT_BEFORE_ERROR_MS away; else whatever pickNext finds
pickStickyAccount(mgr, model, now) ==
    LET current == mgr.sticky[model]
        wait == mgr.rateLimits[current][model] - now
    IN  IF getCurrentStickyAccount(mgr, model, now) # "none"
        THEN [mgr |-> mgr, account |-> current, waitMs |-> 0]
        ELSE IF \E a \in Accounts : isAvailable(mgr, a, model, now)
        THEN [mgr |-> pickNext(mgr, model, now).mgr,
              account |-> pickNext(mgr, model, now).account, waitMs |-> 0]
        ELSE IF ~mgr.isInvalid[current] /\ wait > 0 /\ wait <= MAX_WAIT_BEFORE_ERROR_MS
        THEN [mgr |-> mgr, account |-> "none", waitMs |-> wait]
        ELSE [mgr |-> pickNext(mgr, model, now).mgr,
              account |-> pickNext(mgr, model, now).account, waitMs |-> 0]

\* every account that is not invalid has an active limit for the model
isAllRateLimited(mgr, model, now) ==
    /\ \E a \in Accounts : ~mgr.isInvalid[a]
    /\ \A a \in Accounts : ~mgr.isInvalid[a] => isRateLimited(mgr, a, model, now)

getMinWaitTimeMs(mgr, model, now) ==
    LET waits == {mgr.rateLimits[a][model] - now :
                    a \in {b \in Accounts : isRateLimited(mgr, b, model, now)}}
    IN  IF waits = {} THEN 0 ELSE SetMin(waits)

\* clearExpiredLimits: entries whose reset time has come are dropped
clearExpiredLimits(mgr, now) ==
    [mgr EXCEPT !.rateLimits =
        [a \in Accounts |-> [m \in Models |->
            IF mgr.rateLimits[a][m] <= now THEN 0 ELSE mgr.rateLimits[a][m]]]]

\* resetAllRateLimits; clearedByReset is history: the reset time of the entry
\* that the latest reset removed, until the account is marked again
resetAllRateLimits(mgr) ==
    [mgr EXCEPT !.rateLimits = [a \in Accounts |-> [m \in Models |-> 0]],
                !.clearedByReset = [a \in Accounts |-> [m \in Models |->
                    IF mgr.rateLimits[a][m] # 0 THEN mgr.rateLimits[a][m]
                    ELSE mgr.clearedByReset[a][m]]]]

\* markRateLimited(email, resetMs, model)
markRateLimited(mgr, email, resetMs, model, now) ==
    [mgr EXCEPT !.rateLimits[email][model] = now + resetMs,
                !.clearedByReset[email][model] = 0]

\* the reset time of the latest markRateLimited(email, model) still lies ahead
StillMarked(mgr, email, model, now) ==
    mgr.rateLimits[email][model] > now \/ mgr.clearedByReset[email][model] > now

markInvalid(mgr, email) == [mgr EXCEPT !.isInvalid[email] = TRUE]

\* ---- errors: the kind of the message and whether its text holds a '5'
NoError == [kind |-> "none", five |-> FALSE, minutes |-> 0]
Error(kind, five) == [kind |-> kind, five |-> five, minutes |-> 0]

\* Math.round(allWaitMs / 60000)
RoundMinutes(allWaitMs) == (allWaitMs + 30000) \div 60000

\* what the upstream answers to one fetch: a status (0: the fetch timed out,
\* -1: the fetch failed otherwise), whether the error text holds a '5', and the
\* reset delay of a 429
Responses ==
    {[status |-> 200, five |-> FALSE, resetMs |-> 0]}
    \cup {[status |-> 429, five |-> FALSE, resetMs |-> d] : d \in ResetDelays}
    \cup {[status |-> s, five |-> FALSE, resetMs |-> 0] : s \in {400, 401, 403, 0, -1}}
    \cup {[status |-> s, five |-> TRUE, resetMs |-> 0] : s \in {400, 500}}

\* new Error(`API error ${response.status}: ${errorText}`), or the error that
\* fetchWithTimeout threw
ErrorOf(resp) ==
    IF resp.status = 0 THEN Error("timeout", FALSE)
    ELSE IF resp.status = -1 THEN Error("fetch failed", FALSE)
    ELSE IF resp.status = 429 THEN Error("API 429", resp.five)
    ELSE IF resp.status = 401 THEN Error("API 401", resp.five)
    ELSE IF resp.status = 403 THEN Error("API 403", resp.five)
    ELSE IF resp.status = 400 THEN Error("API 400", resp.five)
    ELSE Error("API 500", TRUE)

\* ---- one sendMessage invocation.  History: wantFallback the fallbackEnabled
\* it was called with; selects the selectAccountWithWait calls of the current
\* run; fallbacks the fallback runs entered, nested whether one was entered from
\* a fallback run; pick the selection just made; log the endpoints answered in
\* the latest attempt; decision the all-accounts-limited decision just taken;
\* failure the latest attempt that threw; waited the sum of the delays of the
\* request's rate-limit sleeps.
NoPick == [account |-> "none", via |-> "none", limited |-> FALSE, afterReset |-> FALSE]
NoDecision == [made |-> FALSE, waitMs |-> 0, outcome |-> "none"]
NoFailure == [account |-> "none", kind |-> "none", otherFree |-> FALSE,
              lastAttempt |-> FALSE, stickyAfter |-> "none"]
IdleCall ==
    [pc |-> "idle", requested |-> "none", model |-> "none", fallbackEnabled |-> FALSE,
     isRecursiveFallback |-> FALSE, attempt |-> 0, account |-> "none", endpoint |-> 0,
     wakeAt |-> 0, result |-> "none", error |-> NoError,
     wantFallback |-> FALSE, selects |-> 0, fallbacks |-> 0, nested |-> FALSE,
     pick |-> NoPick, log |-> <<>>, decision |-> NoDecision, failure |-> NoFailure,
     waited |-> 0]

\* the attempts counted per endpoint
maxAttempts_PerEndpoint == Max(MAX_RETRIES, getAccountCount + 1) * Len(ENDPOINTS)

\* executeWithRetry, line 1652
maxAttempts == Max(MAX_RETRIES, getAccountCount + 1)

\* the flow operators take and return w = [mgr, c]: the account manager and the call

\* executeOnAccount starts on the selected account: it awaits the token
OnAccount(w, account, via, now) ==
    [w EXCEPT !.c.pc = "token", !.c.account = account, !.c.endpoint = 0,
              !.c.pick = [account |-> account, via |-> via,
                          limited |-> StillMarked(w.mgr, account, w.c.model, now),
                          afterReset |-> w.mgr.clearedByReset[account][w.c.model] > now]]

Throw(w, err) == [w EXCEPT !.c.pc = "done", !.c.result = "error", !.c.error = err]

RECURSIVE Loop(_, _)

\* return executeWithRetry(fallbackRequest, accountManager, false, true)
Fallback(w, now) ==
    Loop([w EXCEPT !.c.model = getFallbackModel(w.c.model), !.c.fallbackEnabled = FALSE,
                   !.c.nested = w.c.isRecursiveFallback, !.c.isRecursiveFallback = TRUE,
                   !.c.attempt = 0, !.c.selects = 0, !.c.fallbacks = @ + 1], now)

CanFallback(c) ==
    c.fallbackEnabled /\ ~c.isRecursiveFallback /\ getFallbackModel(c.model) # "none"

\* executeWithRetry, lines 1657-1667: no account was selected
NoAccountLeft(w, now) ==
    IF CanFallback(w.c) THEN Fallback(w, now)
    ELSE Throw(w, Error("No accounts available", FALSE))

\* executeWithRetry, lines 1679-1689: the loop ran out of attempts
Exhausted(w, now) ==
    IF CanFallback(w.c) THEN Fallback(w, now)
    ELSE Throw(w, Error("Max retries exceeded", FALSE))

\* selectAccountWithWait, line 1709
WaitTooLong(allWaitMs) == allWaitMs > MAX_WAIT_BEFORE_ERROR_MS

\* selectAccountWithWait, lines 1706-1714: no account yet
AllLimited(w, now) ==
    IF isAllRateLimited(w.mgr, w.c.model, now)
    THEN LET allWaitMs == getMinWaitTimeMs(w.mgr, w.c.model, now) IN
         IF WaitTooLong(allWaitMs)
         THEN Throw([w EXCEPT !.c.decision = [made |-> TRUE, waitMs |-> allWaitMs,
                                              outcome |-> "throw"]],
                    [kind |-> "RESOURCE_EXHAUSTED", five |-> FALSE,
                     minutes |-> RoundMinutes(allWaitMs)])
         ELSE [w EXCEPT !.c.pc = "sleepAll", !.c.wakeAt = now + allWaitMs + WAIT_BUFFER_MS,
                        !.c.waited = @ + allWaitMs + WAIT_BUFFER_MS,
                        !.c.decision = [made |-> TRUE, waitMs |-> allWaitMs,
                                        outcome |-> "sleep"]]
    ELSE NoAccountLeft(w, now)

\* selectAccountWithWait, lines 1695-1704, up to its first await
selectAccountWithWait(w, now) ==
    LET p == pickStickyAccount(w.mgr, w.c.model, now)
        w1 == [w EXCEPT !.mgr = p.mgr, !.c.selects = @ + 1, !.c.decision = NoDecision]
    IN  IF p.account # "none" THEN OnAccount(w1, p.account, "sticky", now)
        ELSE IF p.waitMs > 0
        THEN [w1 EXCEPT !.c.pc = "sleepSticky", !.c.wakeAt = now + p.waitMs,
                        !.c.waited = @ + p.waitMs]
        ELSE AllLimited(w1, now)

\* executeWithRetry's for loop, line 1654
Loop(w, now) ==
    IF w.c.attempt < maxAttempts THEN selectAccountWithWait(w, now) ELSE Exhausted(w, now)

\* shouldRetryOnAccount that gives up on a 429
shouldRetryOnAccount_Not429(error) ==
    IF error.kind = "RESOURCE_EXHAUSTED" THEN [retry |-> TRUE, rotate |-> FALSE]
    ELSE IF error.kind \in {"API 401", "AUTH_INVALID"} THEN [retry |-> TRUE, rotate |-> FALSE]
    ELSE IF error.five \/ error.kind = "timeout" THEN [retry |-> TRUE, rotate |-> TRUE]
    ELSE [retry |-> FALSE, rotate |-> FALSE]

\* shouldRetryOnAccount: whether to go on, and whether pickNext is called first
shouldRetryOnAccount(error) ==
    IF error.kind \in {"API 429", "RESOURCE_EXHAUSTED"} THEN [retry |-> TRUE, rotate |-> FALSE]
    ELSE IF error.kind \in {"API 401", "AUTH_INVALID"} THEN [retry |-> TRUE, rotate |-> FALSE]
    ELSE IF error.five \/ error.kind = "timeout" THEN [retry |-> TRUE, rotate |-> TRUE]
    ELSE [retry |-> FALSE, rotate |-> FALSE]

\* executeWithRetry's catch, lines 1671-1676
Caught(w, error, now) ==
    LET verdict == shouldRetryOnAccount(error)
        failure == [account |-> w.c.account, kind |-> error.kind,
                    otherFree |-> \E b \in Accounts \ {w.c.account} :
                                      isAvailable(w.mgr, b, w.c.model, now),
                    lastAttempt |-> w.c.attempt + 1 >= maxAttempts,
                    stickyAfter |-> "none"]
        mgr1 == IF verdict.rotate THEN pickNext(w.mgr, w.c.model, now).mgr ELSE w.mgr
        w1 == IF verdict.retry
              THEN Loop([w EXCEPT !.mgr = mgr1, !.c.attempt = @ + 1], now)
              ELSE Throw(w, error)
    IN  [w1 EXCEPT !.c.failure = [failure EXCEPT !.stickyAfter = w1.mgr.sticky[w.c.model]]]

\* executeOnAccount where a 429 ends the endpoint loop
executeOnAccount_429Breaks(w, resp, now) ==
    LET c == w.c
        logged == [w EXCEPT !.c.log = Append(@, [endpoint |-> ENDPOINTS[c.endpoint],
                                                 account |-> c.account,
                                                 limited |-> resp.status = 429])]
    IN  IF resp.status = 200
        THEN [logged EXCEPT !.c.pc = "done", !.c.result = "response"]
        ELSE IF resp.status = 429
        THEN Caught([logged EXCEPT !.mgr = markRateLimited(@, c.account, resp.resetMs,
                                                              c.model, now)],
                    ErrorOf(resp), now)
        ELSE IF c.endpoint < Len(ENDPOINTS)
        THEN [logged EXCEPT !.c.endpoint = @ + 1]
        ELSE Caught(logged, ErrorOf(resp), now)

\* executeOnAccount, lines 1743-1782: an endpoint answered.  lastError is not
\* kept: each endpoint sets it anew, so the error thrown after the loop is the
\* last endpoint's.
executeOnAccount(w, resp, now) ==
    LET c == w.c
        logged == [w EXCEPT !.c.log = Append(@, [endpoint |-> ENDPOINTS[c.endpoint],
                                                 account |-> c.account,
                                                 limited |-> resp.status = 429])]
        marked == IF resp.status = 429
                  THEN [logged EXCEPT !.mgr = markRateLimited(@, c.account, resp.resetMs,
                                                               c.model, now)]
                  ELSE logged
    IN  IF resp.status = 200
        THEN [logged EXCEPT !.c.pc = "done", !.c.result = "response"]
        ELSE IF c.endpoint < Len(ENDPOINTS)
        THEN [marked EXCEPT !.c.endpoint = @ + 1]
        ELSE Caught(marked, ErrorOf(resp), now)

World(call) == [mgr |-> accountManager, c |-> calls[call]]

ApplyWorld(call, w) ==
    /\ accountManager' = w.mgr
    /\ calls' = [calls EXCEPT ![call] = w.c]

\* sendMessage(anthropicRequest, accountManager, fallbackEnabled)
SendMessage(call, model, fallbackEnabled) ==
    /\ calls[call].pc = "idle"
    /\ ApplyWorld(call, Loop([mgr |-> accountManager,
                              c |-> [IdleCall EXCEPT !.requested = model, !.model = model,
                                                     !.fallbackEnabled = fallbackEnabled,
                                                     !.wantFallback = fallbackEnabled]],
                             schedNow))
    /\ UNCHANGED <<schedNow, count429>>

\* as SleptForSticky, but the sticky account is taken without a look at its limits
SleptForSticky_Unchecked(w, now) ==
    LET w1 == [w EXCEPT !.mgr = clearExpiredLimits(@, now)]
    IN  OnAccount(w1, w1.mgr.sticky[w.c.model], "stickyAfterWait", now)

\* selectAccountWithWait, lines 1701-1704: the wait for the sticky account is over
SleptForSticky(w, now) ==
    LET w1 == [w EXCEPT !.mgr = clearExpiredLimits(@, now)]
        account == getCurrentStickyAccount(w1.mgr, w.c.model, now)
    IN  IF account # "none" THEN OnAccount(w1, account, "stickyAfterWait", now)
        ELSE AllLimited(w1, now)

WakeSticky(call) ==
    /\ calls[call].pc = "sleepSticky"
    /\ schedNow >= calls[call].wakeAt
    /\ ApplyWorld(call, SleptForSticky(World(call), schedNow))
    /\ UNCHANGED <<schedNow, count429>>

\* selectAccountWithWait, lines 1715-1724: the wait for all accounts is over
SleptForAll(w, now) ==
    LET w1 == [w EXCEPT !.mgr = clearExpiredLimits(@, now)]
        p == pickNext(w1.mgr, w.c.model, now)
        reset == resetAllRateLimits(p.mgr)
        q == pickNext(reset, w.c.model, now)
    IN  IF p.account # "none"
        THEN OnAccount([w1 EXCEPT !.mgr = p.mgr], p.account, "afterWait", now)
        ELSE IF q.account # "none"
        THEN OnAccount([w1 EXCEPT !.mgr = q.mgr], q.account, "afterReset", now)
        ELSE NoAccountLeft([w1 EXCEPT !.mgr = q.mgr], now)

WakeAll(call) ==
    /\ calls[call].pc = "sleepAll"
    /\ schedNow >= calls[call].wakeAt
    /\ ApplyWorld(call, SleptForAll(World(call), schedNow))
    /\ UNCHANGED <<schedNow, count429>>

\* executeOnAccount, line 1732: getTokenForAccount settles; a refused refresh
\* token marks the account invalid and throws AUTH_INVALID
TokenSettles(call, ok) ==
    /\ calls[call].pc = "token"
    /\ LET w == [World(call) EXCEPT !.c.pick = NoPick, !.c.decision = NoDecision] IN
       IF ok
       THEN ApplyWorld(call, [w EXCEPT !.c.pc = "fetch", !.c.endpoint = 1, !.c.log = <<>>])
       ELSE ApplyWorld(call, Caught([w EXCEPT !.mgr = markInvalid(@, w.c.account)],
                                    Error("AUTH_INVALID", FALSE), schedNow))
    /\ UNCHANGED <<schedNow, count429>>

\* the endpoint in turn answers the fetch
Respond(call, resp) ==
    /\ calls[call].pc = "fetch"
    /\ resp.status = 429 => count429 < Max429
    /\ count429' = IF resp.status = 429 THEN count429 + 1 ELSE count429
    /\ ApplyWorld(call, executeOnAccount(World(call), resp, schedNow))
    /\ UNCHANGED schedNow

\* reset delays of the 429s answered to other workers' calls
ConcurrentDelays == {150000}

\* executeOnAccount, lines 1759-1763, run by a call of another worker for the
\* same model: its account was answered a 429
ConcurrentRateLimit(email, model, resetMs) ==
    /\ count429 < Max429
    /\ count429' = count429 + 1
    /\ accountManager' = markRateLimited(accountManager, email, resetMs, model, schedNow)
    /\ UNCHANGED <<calls, schedNow>>

Sleeping == {c \in Callers : calls[c].pc \in {"sleepSticky", "sleepAll"}}

\* instants at which a timer is due
Instants == {calls[c].wakeAt : c \in Sleeping}

\* time passes up to the next timer; timers fire on time
SchedClock(t) ==
    /\ t > schedNow
    /\ \A c \in Sleeping : t <= calls[c].wakeAt
    /\ schedNow' = t
    /\ UNCHANGED <<accountManager, calls, count429>>

\* account A is the sticky account for every model, nothing is limited
SchedStart ==
    /\ accountManager =
         [sticky |-> [m \in Models |-> "A"],
          rateLimits |-> [a \in Accounts |-> [m \in Models |-> 0]],
          isInvalid |-> [a \in Accounts |-> FALSE],
          clearedByReset |-> [a \in Accounts |-> [m \in Models |-> 0]]]
    /\ calls = [c \in Callers |-> IdleCall]
    /\ schedNow = 0
    /\ count429 = 0

SchedNext ==
    \/ \E c \in Callers, m \in RequestModels, f \in BOOLEAN : SendMessage(c, m, f)
    \/ \E c \in Callers : WakeSticky(c)
    \/ \E c \in Callers : WakeAll(c)
    \/ \E c \in Callers, ok \in BOOLEAN : TokenSettles(c, ok)
    \/ \E c \in Callers, resp \in Responses : Respond(c, resp)
    \/ \E a \in Accounts, m \in RequestModels, d \in ConcurrentDelays :
          ConcurrentRateLimit(a, m, d)
    \/ \E t \in Instants : SchedClock(t)

(***************************************************************************)
(* Rate-limit reports: sanitizeAccountForResponse (utils/error-sanitizer,  *)
(* part_003) and formatLimits (public/app.js)                              *)
(*                                                                         *)
(* The account store that records the entries (markRateLimited,            *)
(* clearExpiredLimits) and account selection are not part of these         *)
(* sources; they are the account manager of the scheduler above.  An       *)
(* account's modelRateLimits holds an entry {isRateLimited, resetTime} for *)
(* every model with a recorded reset time.                                 *)
(***************************************************************************)
MaxLimitNow == 120000
LimitClockSteps == {30000}
\* what parseResetTime gives for a 429: the reset lies behind, is now, or lies ahead
LimitResetDelays == {-30000, 0, 30000, 60000}

modelRateLimits(mgr, email) ==
    [m \in {x \in Models : mgr.rateLimits[email][x] # 0} |->
        [isRateLimited |-> TRUE, resetTime |-> mgr.rateLimits[email][m]]]

AccountOf(mgr, email) ==
    [email |-> email, isInvalid |-> mgr.isInvalid[email],
     modelRateLimits |-> modelRateLimits(mgr, email)]

\* sanitizeAccountForResponse with a filter on the flag alone
sanitizeAccountForResponse_FlagOnly(account, now) ==
    [isInvalid |-> account.isInvalid,
     rateLimitedModels |->
        {modelId \in DOMAIN account.modelRateLimits :
            account.modelRateLimits[modelId].isRateLimited}]
\* sanitizeAccountForResponse, lines 231-239: the rate limit status of the answer
sanitizeAccountForResponse(account, now) ==
    [isInvalid |-> account.isInvalid,
     rateLimitedModels |->
        {modelId \in DOMAIN account.modelRateLimits :
            /\ account.modelRateLimits[modelId].isRateLimited
            /\ account.modelRateLimits[modelId].resetTime > now}]

\* Math.ceil(a / b) for b > 0
CeilDiv(a, b) == IF a % b = 0 THEN a \div b ELSE (a \div b) + 1

\* formatLimits: 'None', or one tag "model (timeLeft s)" per active limit
formatLimits(limits, now) ==
    LET active == {model \in DOMAIN limits :
                      limits[model].isRateLimited /\ limits[model].resetTime > now}
    IN  IF DOMAIN limits = {} \/ active = {}
        THEN [none |-> TRUE, tags |-> {}]
        ELSE [none |-> FALSE,
              tags |-> {[model |-> model,
                         timeLeft |-> CeilDiv(limits[model].resetTime - now, 1000)] :
                        model \in active}]

NoReport == [made |-> FALSE, account |-> "", at |-> 0, sanitized |-> {}, formatted |-> {},
             selectable |-> {}, picked |-> {}]

\* a 429 for the account and model is recorded in the store
LimitMark(a, m, d) ==
    /\ ~lastReport.made
    /\ limitNow + d > 0
    /\ limitStore' = markRateLimited(limitStore, a, d, m, limitNow)
    /\ UNCHANGED <<limitNow, lastReport>>

\* the store drops the entries whose reset time has come
LimitClear ==
    /\ ~lastReport.made
    /\ limitStore' = clearExpiredLimits(limitStore, limitNow)
    /\ limitStore' # limitStore
    /\ UNCHANGED <<limitNow, lastReport>>

LimitClock(step) ==
    /\ ~lastReport.made
    /\ limitNow + step <= MaxLimitNow
    /\ limitNow' = limitNow + step
    /\ UNCHANGED <<limitStore, lastReport>>

\* the account is reported to the client and the dashboard, and the next
\* request for each model selects an account
LimitReport(a) ==
    /\ ~lastReport.made
    /\ lastReport' =
         [made |-> TRUE, account |-> a, at |-> limitNow,
          sanitized |-> sanitizeAccountForResponse(AccountOf(limitStore, a), limitNow),
          formatted |-> formatLimits(modelRateLimits(limitStore, a), limitNow),
          selectable |-> {m \in Models : isAvailable(limitStore, a, m, limitNow)},
          picked |-> [m \in Models |-> pickStickyAccount(limitStore, m, limitNow).account]]
    /\ UNCHANGED <<limitStore, limitNow>>

LimitReturn ==
    /\ lastReport.made
    /\ lastReport' = NoReport
    /\ UNCHANGED <<limitStore, limitNow>>

\* the clock stands at 60 s, account A is the sticky account, nothing is limited
LimitStart ==
    /\ limitStore =
         [sticky |-> [m \in Models |-> "A"],
          rateLimits |-> [a \in Accounts |-> [m \in Models |-> 0]],
          isInvalid |-> [a \in Accounts |-> FALSE],
          clearedByReset |-> [a \in Accounts |-> [m \in Models |-> 0]]]
    /\ limitNow = 60000
    /\ lastReport = NoReport

LimitNext ==
    \/ \E a \in Accounts, m \in Models, d \in LimitResetDelays : LimitMark(a, m, d)
    \/ LimitClear
    \/ \E step \in LimitClockSteps : LimitClock(step)
    \/ \E a \in Accounts : LimitReport(a)
    \/ LimitReturn

(***************************************************************************)
(* Error payloads: sanitizeErrorMessage, createSafeErrorResponse           *)
(* (utils/error-sanitizer, part_003) and formatOpenAIError,                *)
(* formatOpenAISStreamError (utils/error-utils.js)                         *)
(*                                                                         *)
(* An error message is a sequence of whitespace-separated tokens.  A       *)
(* token stands for one piece of text of the kind its name shows; what the *)
(* regular expressions of REDACT_PATTERNS do to it is Redact.              *)
(***************************************************************************)
MaxErrorLen == 2

PlainTokens == {"failed", "no"}
\* tokens that ERROR_TYPE_MAP looks for
KeywordTokens == {"429", "INVALID_ARGUMENT"}
EmailTokens == {"user@example.com"}
\* an access token after 'Bearer', and a refresh token quoted as it is
TokenTokens == {"Bearer ya29.a0AfH6SM", "1//0gRefreshTokenValue"}
IpTokens == {"10.0.0.5"}
EndpointTokens == {"https://cloudcode-pa.googleapis.com/v1internal"}
\* a path under /home, and a path under /opt
PathTokens == {"/home/dev/accounts.json", "/opt/proxy/accounts.json"}
ProjectTokens == {"projects/rising-fact-p41fc"}

SensitiveTokens ==
    EmailTokens \cup TokenTokens \cup IpTokens \cup EndpointTokens \cup PathTokens
        \cup ProjectTokens
ErrorTokens == PlainTokens \cup KeywordTokens \cup SensitiveTokens

\* tokens of fewer than 5 characters
ShortTokens == {"no", "429"}

\* REDACT_PATTERNS applied in order to one token of the message
Redact(tok) ==
    IF tok \in EmailTokens THEN <<"[email]">>
    ELSE IF tok = "Bearer ya29.a0AfH6SM" THEN <<"Bearer", "[token]">>
    ELSE IF tok \in IpTokens THEN <<"[ip]">>
    ELSE IF tok \in EndpointTokens THEN <<"[cloud-api-endpoint]">>
    ELSE IF tok = "/home/dev/accounts.json" THEN <<"[path]">>
    ELSE IF tok \in ProjectTokens THEN <<"project/[id]">>
    ELSE <<tok>>

\* the markers that the clean-up expression folds into '[redacted]'
FoldedMarkers == {"[email]", "[token]", "[credential]", "[path]", "[ip]", "[api-key]"}

RECURSIVE RedactAll(_)
RedactAll(message) ==
    IF message = <<>> THEN <<>> ELSE Redact(Head(message)) \o RedactAll(Tail(message))

\* a run of folded markers becomes one '[redacted]'
RECURSIVE FoldMarkers(_)
FoldMarkers(toks) ==
    IF toks = <<>> THEN <<>>
    ELSE IF Head(toks) \notin FoldedMarkers THEN <<Head(toks)>> \o FoldMarkers(Tail(toks))
    ELSE IF Len(toks) > 1 /\ toks[2] \in FoldedMarkers THEN FoldMarkers(Tail(toks))
    ELSE <<"[redacted]">> \o FoldMarkers(Tail(toks))

\* sanitizeErrorMessage, lines 133-162
sanitizeErrorMessage(message) ==
    IF message = <<>> THEN <<"An error occurred">>
    ELSE LET sanitized == FoldMarkers(RedactAll(message))
         IN  IF \/ sanitized = <<>>
                \/ sanitized = <<"[redacted]">>
                \/ (Len(sanitized) = 1 /\ sanitized[1] \in ShortTokens)
             THEN <<"An error occurred while processing your request">>
             ELSE sanitized

\* ERROR_TYPE_MAP; message <<>> stands for null
ERROR_TYPE_MAP ==
    << [patterns |-> {"401", "UNAUTHENTICATED", "AUTH_INVALID", "INVALID_GRANT"},
        type |-> "authentication_error", status |-> 401,
        message |-> <<"Authentication failed. Please check your credentials.">>],
       [patterns |-> {"429", "RESOURCE_EXHAUSTED", "QUOTA", "RATE LIMIT"},
        type |-> "rate_limit_error", status |-> 429,
        message |-> <<"Rate limit exceeded. Please try again later.">>],
       [patterns |-> {"400", "INVALID_ARGUMENT", "INVALID_REQUEST", "VALIDATION"},
        type |-> "invalid_request_error", status |-> 400,
        message |-> <<>>],
       [patterns |-> {"TIMEOUT", "DEADLINE_EXCEEDED", "ETIMEDOUT", "TIMED OUT"},
        type |-> "timeout_error", status |-> 504,
        message |-> <<"Request timed out. Please try again.">>],
       [patterns |-> {"503", "UNAVAILABLE", "SERVICE UNAVAILABLE"},
        type |-> "service_unavailable", status |-> 503,
        message |-> <<"Service temporarily unavailable. Please try again later.">>],
       [patterns |-> {"404", "NOT_FOUND"},
        type |-> "not_found_error", status |-> 404,
        message |-> <<"The requested resource was not found.">>],
       [patterns |-> {"403", "PERMISSION_DENIED", "FORBIDDEN"},
        type |-> "permission_error", status |-> 403,
        message |-> <<"Permission denied.">>] >>

\* the patterns of ERROR_TYPE_MAP that the upper-cased token includes
Includes(tok) ==
    IF tok = "429" THEN {"429"}
    ELSE IF tok = "INVALID_ARGUMENT" THEN {"INVALID_ARGUMENT"}
    ELSE {}

MappingMatches(mapping, message) ==
    \E i \in 1..Len(message) : Includes(message[i]) \cap mapping.patterns # {}

\* an Error: its class, message, code and resetMs ("none", 0 when absent)
ErrorClasses ==
    {"Error", "RateLimitError", "AuthError", "NoAccountsError", "MaxRetriesError", "ApiError"}
ErrorMessages == UNION {[1..n -> ErrorTokens] : n \in 1..MaxErrorLen}
Errors ==
    [class : ErrorClasses, message : ErrorMessages, code : {"none", "ECONNRESET"},
     resetMs : {0}]
    \cup [class : {"RateLimitError"}, message : ErrorMessages, code : {"none"},
          resetMs : {30000}]

\* createSafeErrorResponse, lines 318-374
createSafeErrorResponse(error, includeDetails) ==
    LET errorMessage == error.message
        hits == {i \in 1..Len(ERROR_TYPE_MAP) : MappingMatches(ERROR_TYPE_MAP[i], errorMessage)}
        first == CHOOSE i \in hits : \A j \in hits : i <= j
        errorType == IF hits = {} THEN "api_error" ELSE ERROR_TYPE_MAP[first].type
        statusCode == IF hits = {} THEN 500 ELSE ERROR_TYPE_MAP[first].status
        userMessage == IF hits = {} THEN <<"An internal error occurred">>
                       ELSE IF ERROR_TYPE_MAP[first].message # <<>>
                       THEN ERROR_TYPE_MAP[first].message
                       ELSE sanitizeErrorMessage(errorMessage)
    IN  [statusCode |-> statusCode,
         response |->
            [type |-> "error",
             error |->
                [type |-> errorType, message |-> userMessage,
                 internal_message |-> IF includeDetails THEN sanitizeErrorMessage(errorMessage)
                                      ELSE <<>>,
                 code |-> IF includeDetails THEN error.code ELSE "none",
                 retry_after_ms |-> IF includeDetails /\ errorType = "rate_limit_error"
                                    THEN error.resetMs ELSE 0]]]

\* formatOpenAIError(error) with the default type and code, lines 28-63
formatOpenAIError(error) ==
    LET finalType == IF error.class = "RateLimitError" THEN "rate_limit_error"
                     ELSE IF error.class = "AuthError" THEN "authentication_error"
                     ELSE IF error.class = "NoAccountsError" THEN "server_overloaded_error"
                     ELSE "api_error"
        finalCode == IF error.class = "RateLimitError" THEN 429
                     ELSE IF error.class = "AuthError" THEN 401
                     ELSE IF error.class = "NoAccountsError" THEN 503
                     ELSE IF error.class = "MaxRetriesError" THEN 502
                     ELSE 500
    IN  [error |-> [message |-> error.message, type |-> finalType, code |-> finalCode,
                    param |-> "null"]]

\* formatOpenAISStreamError: the JSON of formatOpenAIError in a data line, then [DONE]
formatOpenAISStreamError(error) ==
    <<[data |-> formatOpenAIError(error)], [data |-> "[DONE]"]>>

NoErrorHandled == [made |-> FALSE, handler |-> "", error |-> <<>>, payload |-> <<>>, texts |-> {}]

\* an error reaches the Anthropic path's error handler
SafeErrorResponse(error, includeDetails) ==
    /\ ~lastError.made
    /\ LET r == createSafeErrorResponse(error, includeDetails) IN
       lastError' = [made |-> TRUE, handler |-> "createSafeErrorResponse", error |-> error,
                     payload |-> r,
                     texts |-> {r.response.error.message, r.response.error.internal_message}]

\* an error reaches the OpenAI-compatible path's JSON error handler
OpenAIError(error) ==
    /\ ~lastError.made
    /\ LET r == formatOpenAIError(error) IN
       lastError' = [made |-> TRUE, handler |-> "formatOpenAIError", error |-> error,
                     payload |-> r, texts |-> {r.error.message}]

\* an error reaches the OpenAI-compatible path while streaming
OpenAIStreamError(error) ==
    /\ ~lastError.made
    /\ LET r == formatOpenAISStreamError(error) IN
       lastError' = [made |-> TRUE, handler |-> "formatOpenAISStreamError", error |-> error,
                     payload |-> r, texts |-> {r[1].data.error.message}]

ErrorSent ==
    /\ lastError.made
    /\ lastError' = NoErrorHandled

ErrorStart == lastError = NoErrorHandled

ErrorNext ==
    \/ \E error \in Errors, includeDetails \in BOOLEAN : SafeErrorResponse(error, includeDetails)
    \/ \E error \in Errors : OpenAIError(error)
    \/ \E error \in Errors : OpenAIStreamError(error)
    \/ ErrorSent

(***************************************************************************)
(* Adding an account: addAccount and addAccountNoBrowser (cli/accounts.js) *)
(*                                                                         *)
(* getAuthorizationUrl, startCallbackServer, extractCodeFromInput and      *)
(* completeOAuthFlow are taken as tests/unit/auth/oauth.test.ts shows      *)
(* them.  A callback is the query of the redirect: code, state and error,  *)
(* "none" for a parameter that is absent.                                  *)
(***************************************************************************)
OAuthStates == {"s1", "s2"}
OAuthCodes == {"c1"}
CallbackQueries ==
    [code : OAuthCodes \cup {"none"}, state : OAuthStates \cup {"none"},
     error : {"none", "access_denied"}]
NoQuery == [code |-> "none", state |-> "none", error |-> "none"]

\* what the user pastes at the prompt: a callback URL, a raw code, or nothing
PastedInputs == {"url", "raw", "empty"}

\* the request handler of startCallbackServer(expectedState), as its tests show
\* it (oauth.test.ts 561-635): the answers it may give to a callback.  The
\* tests leave open which message a callback with neither code nor the
\* expected state gets.
startCallbackServer(expectedState, query) ==
    IF query.error # "none"
    THEN {[status |-> 400, resolved |-> FALSE, error |-> "OAuth error"]}
    ELSE IF query.state # expectedState /\ query.code # "none"
    THEN {[status |-> 400, resolved |-> FALSE, error |-> "State mismatch"]}
    ELSE IF query.state = expectedState /\ query.code = "none"
    THEN {[status |-> 400, resolved |-> FALSE, error |-> "No authorization code"]}
    ELSE IF query.code = "none"
    THEN {[status |-> 400, resolved |-> FALSE, error |-> "State mismatch"],
          [status |-> 400, resolved |-> FALSE, error |-> "No authorization code"]}
    ELSE {[status |-> 200, resolved |-> TRUE, error |-> "none"]}

\* extractCodeFromInput, as its tests show it (oauth.test.ts 84-172)
extractCodeFromInput(kind, query) ==
    IF kind = "empty" THEN [ok |-> FALSE, error |-> "No input provided", code |-> "none",
                            state |-> "none"]
    ELSE IF kind = "raw" THEN [ok |-> TRUE, error |-> "none", code |-> query.code,
                               state |-> "none"]
    ELSE IF query.error # "none"
    THEN [ok |-> FALSE, error |-> "OAuth error", code |-> "none", state |-> "none"]
    ELSE IF query.code = "none"
    THEN [ok |-> FALSE, error |-> "No authorization code found in URL", code |-> "none",
          state |-> "none"]
    ELSE [ok |-> TRUE, error |-> "none", code |-> query.code, state |-> query.state]

\* received: the callback or the pasted input has come, returned is its query;
\* code is the code handed to completeOAuthFlow, "none" when none was
IdleFlow == [pc |-> "idle", mode |-> "none", state |-> "none", received |-> FALSE,
             returned |-> NoQuery, code |-> "none", error |-> "none", warned |-> FALSE]

\* addAccount up to its await of startCallbackServer(state): lines 180-196
AddAccount(state) ==
    /\ oauth.pc = "idle"
    /\ oauth' = [IdleFlow EXCEPT !.pc = "waiting", !.mode = "browser", !.state = state]
    /\ UNCHANGED existingAccounts

\* the redirect reaches the callback server; addAccount goes on to
\* completeOAuthFlow(code, verifier), or to its catch: lines 196-199, 224-227
OAuthCallback(query, answer) ==
    /\ oauth.pc = "waiting"
    /\ answer \in startCallbackServer(oauth.state, query)
    /\ oauth' = IF answer.resolved
                THEN [oauth EXCEPT !.pc = "exchanging", !.received = TRUE,
                                   !.returned = query, !.code = query.code]
                ELSE [oauth EXCEPT !.pc = "failed", !.received = TRUE,
                                   !.returned = query, !.error = answer.error]
    /\ UNCHANGED existingAccounts

\* no callback within two minutes
OAuthCallbackTimeout ==
    /\ oauth.pc = "waiting"
    /\ oauth' = [oauth EXCEPT !.pc = "failed", !.error = "OAuth callback timeout"]
    /\ UNCHANGED existingAccounts

\* addAccountNoBrowser up to its prompt: lines 235-249
AddAccountNoBrowser(state) ==
    /\ oauth.pc = "idle"
    /\ oauth' = [IdleFlow EXCEPT !.pc = "prompt", !.mode = "nobrowser", !.state = state]
    /\ UNCHANGED existingAccounts

\* the user answers the prompt; addAccountNoBrowser goes on to
\* completeOAuthFlow(code, verifier), or to its catch: lines 251-261, 286-289
PasteInput(kind, query) ==
    /\ oauth.pc = "prompt"
    /\ kind = "raw" => (query.code # "none" /\ query.state = "none" /\ query.error = "none")
    /\ kind = "empty" => query = NoQuery
    /\ LET extracted == extractCodeFromInput(kind, query)
           inputState == extracted.state
       IN  oauth' = IF ~extracted.ok
                    THEN [oauth EXCEPT !.pc = "failed", !.received = TRUE,
                                       !.returned = query, !.error = extracted.error]
                    ELSE [oauth EXCEPT !.pc = "exchanging", !.received = TRUE,
                                       !.returned = query, !.code = extracted.code,
                                       !.warned = inputState # "none" /\ inputState # oauth.state]
    /\ UNCHANGED existingAccounts

\* completeOAuthFlow settles: the account is updated or added, or the failure
\* is caught (lines 199-227 and 261-289); result is the email, or "failed"
TokenExchangeSettles(result) ==
    /\ oauth.pc = "exchanging"
    /\ oauth' = [oauth EXCEPT !.pc = IF result = "failed" THEN "failed"
                                     ELSE IF result \in existingAccounts THEN "updated"
                                     ELSE "added",
                              !.error = IF result = "failed" THEN "exchange failed" ELSE "none"]
    /\ existingAccounts' = IF result = "failed" THEN existingAccounts
                           ELSE existingAccounts \cup {result}

\* the command returns to the menu
OAuthReturn ==
    /\ oauth.pc \in {"failed", "updated", "added"}
    /\ oauth' = IdleFlow
    /\ UNCHANGED existingAccounts

OAuthStart ==
    /\ oauth = IdleFlow
    /\ existingAccounts = {}

OAuthNext ==
    \/ \E state \in OAuthStates : AddAccount(state)
    \/ \E query \in CallbackQueries :
          \E answer \in startCallbackServer(oauth.state, query) : OAuthCallback(query, answer)
    \/ OAuthCallbackTimeout
    \/ \E state \in OAuthStates : AddAccountNoBrowser(state)
    \/ \E kind \in PastedInputs, query \in CallbackQueries : PasteInput(kind, query)
    \/ \E result \in Emails \cup {"failed"} : TokenExchangeSettles(result)
    \/ OAuthReturn

(***************************************************************************)
(* Upstream fetch with timeout (utils/fetch-with-timeout.js)               *)
(***************************************************************************)
DEFAULT_TIMEOUT_MS == 60000
STREAMING_TIMEOUT_MS == 180000
Fetches == {"f1", "f2"}
MaxFetchNow == 240000
FetchClockSteps == {60000}
FetchTimeouts == {DEFAULT_TIMEOUT_MS, STREAMING_TIMEOUT_MS}
\* options.signal: the caller passes no signal or a signal of its own
OptionSignals == {"none", "caller"}

\* { ...options, signal: controller.signal }: the signal the fetch is given
fetchOptions(options) == [options EXCEPT !.signal = "controller"]

IdleFetch ==
    [pc |-> "idle", options |-> [signal |-> "none"], held |-> "none", timeoutMs |-> 0,
     deadline |-> 0, timer |-> "none", controllerAborted |-> FALSE, callerAborted |-> FALSE,
     result |-> "none"]

\* the signal the running fetch holds has been aborted
HeldSignalAborted(f) ==
    \/ fetches[f].held = "controller" /\ fetches[f].controllerAborted
    \/ fetches[f].held = "caller" /\ fetches[f].callerAborted

\* fetchWithTimeout up to the await: controller, timer, merged options, fetch
FetchWithTimeout(f, signal, timeoutMs) ==
    /\ fetches[f].pc = "idle"
    /\ fetches' = [fetches EXCEPT ![f] =
         [IdleFetch EXCEPT !.pc = "inflight", !.options = [signal |-> signal],
                           !.held = fetchOptions([signal |-> signal]).signal,
                           !.timeoutMs = timeoutMs, !.deadline = fetchNow + timeoutMs,
                           !.timer = "armed"]]
    /\ UNCHANGED fetchNow

\* the caller aborts the signal it passed in the options
CallerAborts(f) ==
    /\ fetches[f].pc = "inflight"
    /\ fetches[f].options.signal = "caller"
    /\ ~fetches[f].callerAborted
    /\ fetches' = [fetches EXCEPT ![f].callerAborted = TRUE]
    /\ UNCHANGED fetchNow

\* the setTimeout callback: controller.abort()
TimeoutFires(f) ==
    /\ fetches[f].timer = "armed"
    /\ fetchNow >= fetches[f].deadline
    /\ fetches' = [fetches EXCEPT ![f].timer = "fired", ![f].controllerAborted = TRUE]
    /\ UNCHANGED fetchNow

\* fetch rejects with AbortError: catch builds the TimeoutError, finally clears the timer
FetchAborted(f) ==
    /\ fetches[f].pc = "inflight"
    /\ HeldSignalAborted(f)
    /\ fetches' = [fetches EXCEPT ![f].pc = "done", ![f].result = "TimeoutError",
                                  ![f].timer = "cleared"]
    /\ UNCHANGED fetchNow

\* fetch resolves: the response is returned, finally clears the timer
FetchResolves(f) ==
    /\ fetches[f].pc = "inflight"
    /\ ~HeldSignalAborted(f)
    /\ fetches' = [fetches EXCEPT ![f].pc = "done", ![f].result = "response",
                                  ![f].timer = "cleared"]
    /\ UNCHANGED fetchNow

\* fetch rejects with another error: rethrown, finally clears the timer
FetchFails(f) ==
    /\ fetches[f].pc = "inflight"
    /\ ~HeldSignalAborted(f)
    /\ fetches' = [fetches EXCEPT ![f].pc = "done", ![f].result = "NetworkError",
                                  ![f].timer = "cleared"]
    /\ UNCHANGED fetchNow

\* the caller has taken the result
FetchReturn(f) ==
    /\ fetches[f].pc = "done"
    /\ fetches' = [fetches EXCEPT ![f] = IdleFetch]
    /\ UNCHANGED fetchNow

\* time passes; a timer that is due fires first
FetchClock ==
    /\ \E d \in FetchClockSteps :
          /\ fetchNow + d <= MaxFetchNow
          /\ fetchNow' = fetchNow + d
    /\ \A f \in Fetches : fetches[f].timer = "armed" => fetchNow < fetches[f].deadline
    /\ UNCHANGED fetches

FetchStart ==
    /\ fetches = [f \in Fetches |-> IdleFetch]
    /\ fetchNow = 0

FetchNext ==
    \/ \E f \in Fetches : \E signal \in OptionSignals : \E timeoutMs \in FetchTimeouts :
          FetchWithTimeout(f, signal, timeoutMs)
    \/ \E f \in Fetches : CallerAborts(f)
    \/ \E f \in Fetches : TimeoutFires(f)
    \/ \E f \in Fetches : FetchAborted(f)
    \/ \E f \in Fetches : FetchResolves(f)
    \/ \E f \in Fetches : FetchFails(f)
    \/ \E f \in Fetches : FetchReturn(f)
    \/ FetchClock

(***************************************************************************)
(* Graceful shutdown (utils/graceful-shutdown.js)                          *)
(*                                                                         *)
(* server.close(cb) stops accepting connections and calls cb once every    *)
(* connection of the server has ended.  A socket that ends leaves the      *)
(* server first and emits its 'close' event, which removes it from         *)
(* activeConnections, afterwards.                                          *)
(***************************************************************************)
SHUTDOWN_TIMEOUT_MS == 30000
Sockets == {"s1", "s2"}
CallbackNames == {"cache", "refresh"}
MaxCallbacks == 2
MaxShutdownNow == 40000
ShutdownClockSteps == {5000}
Signals == {"SIGTERM", "SIGINT"}

Min2(a, b) == IF a <= b THEN a ELSE b
\* Math.min(SHUTDOWN_TIMEOUT_MS - 5000, 10000)
connectionTimeout == Min2(SHUTDOWN_TIMEOUT_MS - 5000, 10000)

\* sockets the server still counts as connections
ServerConnections == {s \in Sockets : shutdown.sockets[s] = "open"}
\* the activeConnections Set: tracked sockets whose 'close' event has not fired
activeConnections == {s \in Sockets : shutdown.sockets[s] \in {"open", "ended"}}

\* onShutdown(name, callback)
onShutdown(name) ==
    /\ shutdown.pc = "running"
    /\ Len(shutdown.cleanupCallbacks) < MaxCallbacks
    /\ \A i \in 1..Len(shutdown.cleanupCallbacks) : shutdown.cleanupCallbacks[i] # name
    /\ shutdown' = [shutdown EXCEPT !.cleanupCallbacks = Append(@, name)]
    /\ UNCHANGED shutdownNow

\* server 'connection' event: trackConnection(socket)
trackConnection(s) ==
    /\ shutdown.pc = "running"
    /\ shutdown.sockets[s] = "none"
    /\ shutdown' = [shutdown EXCEPT !.sockets[s] = "open"]
    /\ UNCHANGED shutdownNow

\* the client or the handler ends the connection
SocketEnds(s) ==
    /\ shutdown.pc # "exited"
    /\ shutdown.sockets[s] = "open"
    /\ shutdown' = [shutdown EXCEPT !.sockets[s] = "ended"]
    /\ UNCHANGED shutdownNow

\* the socket's 'close' listener: activeConnections.delete(socket)
SocketCloseEvent(s) ==
    /\ shutdown.pc # "exited"
    /\ shutdown.sockets[s] = "ended"
    /\ shutdown' = [shutdown EXCEPT !.sockets[s] = "none"]
    /\ UNCHANGED shutdownNow

\* a signal handler: initiateShutdown up to the await of server.close
initiateShutdown(signal) ==
    /\ shutdown.pc # "exited"
    /\ IF shutdown.isShuttingDown
       THEN shutdown' = [shutdown EXCEPT !.ignored = TRUE]
       ELSE shutdown' = [shutdown EXCEPT !.isShuttingDown = TRUE, !.signal = signal,
                                         !.forceExitAt = shutdownNow + SHUTDOWN_TIMEOUT_MS,
                                         !.forceExitTimer = TRUE, !.pc = "closing"]
    /\ UNCHANGED shutdownNow

\* force-close what is left in activeConnections: destroy, clear
ForceClose(sockets) == [s \in Sockets |-> "none"]

\* the server.close callback without error, then step 2 up to its await
ServerClosed ==
    /\ shutdown.pc = "closing"
    /\ ServerConnections = {}
    /\ IF activeConnections # {}
       THEN shutdown' = [shutdown EXCEPT !.pc = "waiting",
                                         !.waitUntil = shutdownNow + connectionTimeout]
       ELSE shutdown' = [shutdown EXCEPT !.pc = "cleanup", !.next = 1]
    /\ UNCHANGED shutdownNow

\* waitForConnections resolves: activeConnections is empty
ConnectionsGone ==
    /\ shutdown.pc = "waiting"
    /\ activeConnections = {}
    /\ shutdown' = [shutdown EXCEPT !.pc = "cleanup", !.next = 1]
    /\ UNCHANGED shutdownNow

\* the connection timeout wins the race: remaining connections are destroyed
ConnectionTimeout ==
    /\ shutdown.pc = "waiting"
    /\ shutdownNow >= shutdown.waitUntil
    /\ shutdown' = [shutdown EXCEPT !.pc = "cleanup", !.next = 1,
                                    !.sockets = IF activeConnections # {}
                                                THEN ForceClose(@) ELSE @,
                                    !.destroyed = activeConnections]
    /\ UNCHANGED shutdownNow

\* runCleanupCallbacks: one turn of the loop; a callback that throws is logged
runCleanupCallbacks(threw) ==
    /\ shutdown.pc = "cleanup"
    /\ shutdown.next <= Len(shutdown.cleanupCallbacks)
    /\ shutdown' = [shutdown EXCEPT
         !.ran = Append(@, [name |-> shutdown.cleanupCallbacks[shutdown.next], threw |-> threw]),
         !.next = @ + 1]
    /\ UNCHANGED shutdownNow

\* step 4: clearTimeout, process.exit(0)
ExitCleanly ==
    /\ shutdown.pc = "cleanup"
    /\ shutdown.next > Len(shutdown.cleanupCallbacks)
    /\ shutdown' = [shutdown EXCEPT !.pc = "exited", !.exitCode = 0, !.forceExitTimer = FALSE,
                                    !.exitedAt = "cleanup"]
    /\ UNCHANGED shutdownNow

\* the forceExitTimer callback: process.exit(1)
ForcedExit ==
    /\ shutdown.pc # "exited"
    /\ shutdown.forceExitTimer
    /\ shutdownNow >= shutdown.forceExitAt
    /\ shutdown' = [shutdown EXCEPT !.pc = "exited", !.exitCode = 1, !.exitedAt = shutdown.pc]
    /\ UNCHANGED shutdownNow

\* time passes; a timer that is due fires first
ShutdownClock ==
    /\ shutdown.pc # "exited"
    /\ \E d \in ShutdownClockSteps :
          /\ shutdownNow + d <= MaxShutdownNow
          /\ shutdownNow' = shutdownNow + d
    /\ shutdown.forceExitTimer => shutdownNow < shutdown.forceExitAt
    /\ shutdown.pc = "waiting" => shutdownNow < shutdown.waitUntil
    /\ UNCHANGED shutdown

ShutdownStart ==
    /\ shutdown = [pc |-> "running", isShuttingDown |-> FALSE, signal |-> "none",
                   ignored |-> FALSE, sockets |-> [s \in Sockets |-> "none"],
                   cleanupCallbacks |-> <<>>, ran |-> <<>>, next |-> 0,
                   forceExitTimer |-> FALSE, forceExitAt |-> 0, waitUntil |-> 0,
                   destroyed |-> {}, exitCode |-> -1, exitedAt |-> "none"]
    /\ shutdownNow = 0

ShutdownNext ==
    \/ \E name \in CallbackNames : onShutdown(name)
    \/ \E s \in Sockets : trackConnection(s)
    \/ \E s \in Sockets : SocketEnds(s)
    \/ \E s \in Sockets : SocketCloseEvent(s)
    \/ \E signal \in Signals : initiateShutdown(signal)
    \/ ServerClosed
    \/ ConnectionsGone
    \/ ConnectionTimeout
    \/ \E threw \in BOOLEAN : runCleanupCallbacks(threw)
    \/ ExitCleanly
    \/ ForcedExit
    \/ ShutdownClock

(***************************************************************************)
(* OpenAI streaming conversion (format/openai-response-converter.js)       *)
(*                                                                         *)
(* An event is [type, sub, data]: sub is the content block's or the        *)
(* delta's type, data the tool name, the text or the partial_json.  A      *)
(* chunk is what the yielded line holds besides id, model and created;     *)
(* the tool call's id is left out.                                         *)
(***************************************************************************)
MaxEvents == 4
JsonFragments == {"", "{\"city\":"}
AnthropicEvents ==
    {[type |-> "message_start", sub |-> "none", data |-> "none"],
     [type |-> "content_block_start", sub |-> "tool_use", data |-> "get_weather"],
     [type |-> "content_block_start", sub |-> "text", data |-> "none"],
     [type |-> "content_block_delta", sub |-> "text_delta", data |-> "Hi"],
     [type |-> "content_block_delta", sub |-> "thinking_delta", data |-> "Hm"],
     [type |-> "message_delta", sub |-> "none", data |-> "end_turn"],
     [type |-> "message_stop", sub |-> "none", data |-> "none"],
     [type |-> "ping", sub |-> "none", data |-> "none"]}
    \cup {[type |-> "content_block_delta", sub |-> "input_json_delta", data |-> j] :
             j \in JsonFragments}

NoToolCall == -1
NoChunk == [kind |-> "none"]
RoleChunk == [kind |-> "role", role |-> "assistant"]
ToolStartChunk(index, name) ==
    [kind |-> "tool_call", index |-> index, name |-> name, arguments |-> ""]
ToolArgumentsChunk(index, partial) ==
    [kind |-> "tool_arguments", index |-> index, arguments |-> partial]
ContentChunk(text) == [kind |-> "content", content |-> text]
ReasoningChunk(text) == [kind |-> "reasoning", thinking |-> text]
FinishChunk(reason) == [kind |-> "finish", stop_reason |-> reason]
DoneLine == [kind |-> "[DONE]"]

\* the index the chunk of an input_json_delta carries
\* (variant: the index the next tool call will get)
ArgumentsIndex_NextIndex(st) == st.toolCallIndex
ArgumentsIndex(st) == st.currentToolCall

\* what one turn of the for-await loop yields for the event, NoChunk if nothing
Yielded(st, event) ==
    CASE st.isFirstChunk /\ event.type = "message_start" -> RoleChunk
      [] event.type = "content_block_start" ->
            IF event.sub = "tool_use"
            THEN ToolStartChunk(st.toolCallIndex, event.data)
            ELSE NoChunk
      [] event.type = "content_block_delta" ->
            IF event.sub = "text_delta" /\ event.data # "" THEN ContentChunk(event.data)
            ELSE IF event.sub = "thinking_delta" /\ event.data # ""
            THEN ReasoningChunk(event.data)
            ELSE IF /\ event.sub = "input_json_delta" /\ event.data # ""
                    /\ st.currentToolCall # NoToolCall
            THEN ToolArgumentsChunk(ArgumentsIndex(st), event.data)
            ELSE NoChunk
      [] event.type = "message_delta" -> FinishChunk(event.data)
      [] event.type = "message_stop" -> DoneLine
      [] OTHER -> NoChunk

\* streamToOpenAIFormat: one turn of the loop over anthropicEvents
streamToOpenAIFormat(event) ==
    /\ Len(stream.events) < MaxEvents
    /\ LET startsTool == event.type = "content_block_start" /\ event.sub = "tool_use"
           chunk == Yielded(stream, event)
       IN stream' =
            [isFirstChunk |-> stream.isFirstChunk /\ event.type # "message_start",
             currentToolCall |-> IF startsTool THEN stream.toolCallIndex
                                 ELSE stream.currentToolCall,
             toolCallIndex |-> IF startsTool THEN stream.toolCallIndex + 1
                               ELSE stream.toolCallIndex,
             events |-> Append(stream.events, event),
             out |-> IF chunk = NoChunk THEN stream.out
                     ELSE Append(stream.out, [at |-> Len(stream.events) + 1, chunk |-> chunk])]

StreamStart ==
    stream = [isFirstChunk |-> TRUE, currentToolCall |-> NoToolCall, toolCallIndex |-> 0,
              events |-> <<>>, out |-> <<>>]

StreamNext == \E event \in AnthropicEvents : streamToOpenAIFormat(event)

(***************************************************************************)
(* Background refresh monitoring: startBackgroundRefresh and               *)
(* stopBackgroundRefresh (utils/proactive-token-refresh.js)                *)
(***************************************************************************)
BACKGROUND_CHECK_INTERVAL_MS == 30000
INITIAL_CHECK_DELAY_MS == 5000
MaxStarts == 3
MaxMonitorNow == 40000
MonitorClockSteps == {2500, 5000}

NoCheck == [by |-> "none", at |-> 0, stopped |-> FALSE]

\* backgroundRefreshCheck is called by a timer
CheckRuns(by) == [by |-> by, at |-> monitorNow, stopped |-> monitor.stopped]

\* startBackgroundRefresh
startBackgroundRefresh ==
    /\ monitor.starts < MaxStarts
    /\ IF monitor.backgroundTimer
       THEN monitor' = [monitor EXCEPT !.starts = @ + 1, !.alreadyRunning = TRUE]
       ELSE monitor' = [monitor EXCEPT
              !.starts = @ + 1,
              !.timeouts = Append(@, monitorNow + INITIAL_CHECK_DELAY_MS),
              !.backgroundTimer = TRUE,
              !.intervals = @ + 1,
              !.nextAt = monitorNow + BACKGROUND_CHECK_INTERVAL_MS,
              !.stopped = FALSE]
    /\ UNCHANGED monitorNow

\* stopBackgroundRefresh
stopBackgroundRefresh ==
    /\ ~monitor.stopped
    /\ IF monitor.backgroundTimer
       THEN monitor' = [monitor EXCEPT !.backgroundTimer = FALSE, !.intervals = @ - 1,
                                       !.stopped = TRUE]
       ELSE monitor' = [monitor EXCEPT !.stopped = TRUE]
    /\ UNCHANGED monitorNow

\* the timer of setTimeout(backgroundRefreshCheck, 5000) fires
InitialCheckFires ==
    /\ monitor.timeouts # <<>>
    /\ monitorNow >= Head(monitor.timeouts)
    /\ monitor' = [monitor EXCEPT !.timeouts = Tail(@), !.checks = @ + 1,
                                  !.lastCheck = CheckRuns("timeout")]
    /\ UNCHANGED monitorNow

\* the timer of setInterval(backgroundRefreshCheck, BACKGROUND_CHECK_INTERVAL_MS) fires
IntervalCheckFires ==
    /\ monitor.intervals > 0
    /\ monitorNow >= monitor.nextAt
    /\ monitor' = [monitor EXCEPT !.nextAt = @ + BACKGROUND_CHECK_INTERVAL_MS,
                                  !.checks = @ + 1,
                                  !.lastCheck = CheckRuns("interval")]
    /\ UNCHANGED monitorNow

\* time passes; a timer that is due fires first
MonitorClock ==
    /\ \E d \in MonitorClockSteps :
          /\ monitorNow + d <= MaxMonitorNow
          /\ monitorNow' = monitorNow + d
    /\ monitor.timeouts # <<>> => monitorNow < Head(monitor.timeouts)
    /\ monitor.intervals > 0 => monitorNow < monitor.nextAt
    /\ UNCHANGED monitor

MonitorStart ==
    /\ monitor = [backgroundTimer |-> FALSE, intervals |-> 0, nextAt |-> 0, timeouts |-> <<>>,
                  starts |-> 0, alreadyRunning |-> FALSE, stopped |-> FALSE, checks |-> 0,
                  lastCheck |-> NoCheck]
    /\ monitorNow = 0

MonitorNext ==
    \/ startBackgroundRefresh
    \/ stopBackgroundRefresh
    \/ InitialCheckFires
    \/ IntervalCheckFires
    \/ MonitorClock

(***************************************************************************)
(* Accounts CLI: interactiveAdd, interactiveRemove, clearAccounts          *)
(* (cli/accounts.js)                                                       *)
(*                                                                         *)
(* One CLI process at a time works on the account file.  An account is     *)
(* [email, refreshToken]; MAX_ACCOUNTS is imported from constants.js and   *)
(* scaled down here.                                                       *)
(***************************************************************************)
MAX_ACCOUNTS == 2
CliEmails == {"a@x", "b@x", "c@x"}
CliTokens == {"rt1", "rt2"}
\* what startCallbackServer and completeOAuthFlow end with: a result or an error
FlowResults ==
    {[ok |-> FALSE, email |-> "none", refreshToken |-> "none"]}
    \cup {[ok |-> TRUE, email |-> e, refreshToken |-> t] : e \in CliEmails, t \in CliTokens}
MenuChoices == {"a", "r", "f", "other"}

\* existingAccounts.find(a => a.email === result.email): its index, 0 if none
\* (variant: no account is ever found)
FindExisting_None(known, email) == 0
FindExisting(known, email) ==
    IF \E i \in 1..Len(known) : known[i].email = email
    THEN CHOOSE i \in 1..Len(known) :
             /\ known[i].email = email
             /\ \A j \in 1..(i - 1) : known[j].email # email
    ELSE 0

\* addAccount / addAccountNoBrowser from the flow's result on: the list with
\* the existing account updated in place, and the account to push or none
addAccount(known, result) ==
    LET existing == FindExisting(known, result.email) IN
    IF ~result.ok
    THEN [accounts |-> known, newAccount |-> <<>>, kind |-> "failed"]
    ELSE IF existing # 0
    THEN [accounts |-> [known EXCEPT ![existing].refreshToken = result.refreshToken],
          newAccount |-> <<>>, kind |-> "updated"]
    ELSE [accounts |-> known,
          newAccount |-> << [email |-> result.email, refreshToken |-> result.refreshToken] >>,
          kind |-> "added"]

\* saveAccounts: the accounts as written to the file
saveAccounts(accounts) ==
    [i \in 1..Len(accounts) |->
        [email |-> accounts[i].email, refreshToken |-> accounts[i].refreshToken]]

NoAdd == [kind |-> "none", before |-> <<>>, result |-> "none", after |-> <<>>]
IdleCli == [pc |-> "exit", accounts |-> <<>>]

\* `accounts.js add`: interactiveAdd up to its add loop
InteractiveAdd(choice) ==
    /\ cli.pc = "exit"
    /\ LET accounts == accountFile IN
       IF Len(accounts) > 0 /\ choice = "r"
       THEN cli' = [pc |-> "remove", accounts |-> <<>>]
       ELSE IF Len(accounts) > 0 /\ choice = "f"
       THEN cli' = [pc |-> "add", accounts |-> <<>>]
       ELSE cli' = [pc |-> "add", accounts |-> accounts]
    /\ UNCHANGED <<accountFile, lastAdd>>

\* one turn of the add loop of interactiveAdd
AddLoop(result, addMore) ==
    /\ cli.pc = "add"
    /\ Len(cli.accounts) < MAX_ACCOUNTS
    /\ LET added == addAccount(cli.accounts, result)
           accounts == added.accounts \o added.newAccount
           saved == added.newAccount # <<>> \/ Len(accounts) > 0
       IN  /\ accountFile' = IF saved THEN saveAccounts(accounts) ELSE accountFile
           /\ cli' = [pc |-> IF Len(accounts) >= MAX_ACCOUNTS \/ ~addMore THEN "exit" ELSE "add",
                      accounts |-> IF Len(accounts) >= MAX_ACCOUNTS \/ ~addMore THEN <<>>
                                   ELSE accounts]
           /\ lastAdd' = [kind |-> added.kind, before |-> cli.accounts, result |-> result,
                          after |-> accountFile']

\* the add loop does not run: the list is full
AddLoopFull ==
    /\ cli.pc = "add"
    /\ Len(cli.accounts) >= MAX_ACCOUNTS
    /\ cli' = IdleCli
    /\ UNCHANGED <<accountFile, lastAdd>>

\* `accounts.js remove`
RemoveCommand ==
    /\ cli.pc = "exit"
    /\ cli' = [pc |-> "remove", accounts |-> <<>>]
    /\ UNCHANGED <<accountFile, lastAdd>>

\* one turn of the loop of interactiveRemove
InteractiveRemove(index, confirm, removeMore) ==
    /\ cli.pc = "remove"
    /\ LET accounts == accountFile IN
       IF Len(accounts) = 0 THEN cli' = IdleCli /\ UNCHANGED accountFile
       ELSE IF index < 0 \/ index > Len(accounts) THEN UNCHANGED <<cli, accountFile>>
       ELSE IF index = 0 THEN cli' = IdleCli /\ UNCHANGED accountFile
       ELSE /\ accountFile' =
                 IF confirm
                 THEN saveAccounts(SubSeq(accounts, 1, index - 1)
                                   \o SubSeq(accounts, index + 1, Len(accounts)))
                 ELSE accountFile
            /\ cli' = IF removeMore THEN cli ELSE IdleCli
    /\ UNCHANGED lastAdd

\* `accounts.js clear`: clearAccounts
clearAccounts(confirm) ==
    /\ cli.pc = "exit"
    /\ Len(accountFile) > 0
    /\ accountFile' = IF confirm THEN saveAccounts(<<>>) ELSE accountFile
    /\ UNCHANGED <<cli, lastAdd>>

CliStart ==
    /\ accountFile = <<>>
    /\ cli = IdleCli
    /\ lastAdd = NoAdd

CliNext ==
    \/ \E choice \in MenuChoices : InteractiveAdd(choice)
    \/ \E result \in FlowResults : \E addMore \in BOOLEAN : AddLoop(result, addMore)
    \/ AddLoopFull
    \/ RemoveCommand
    \/ \E index \in 0..(MAX_ACCOUNTS + 1) : \E confirm \in BOOLEAN : \E removeMore \in BOOLEAN :
          InteractiveRemove(index, confirm, removeMore)
    \/ \E confirm \in BOOLEAN : clearAccounts(confirm)

(***************************************************************************)
(* Specifications                                                          *)
(***************************************************************************)
Init ==
    /\ LifecycleStart /\ CacheStart /\ RefreshStart /\ SchedStart /\ IntegrityStart
    /\ LimitStart /\ ErrorStart /\ OAuthStart /\ FetchStart /\ ShutdownStart
    /\ StreamStart /\ MonitorStart /\ CliStart

LifecycleSpec ==
    Init /\ [][LifecycleNext
                /\ UNCHANGED <<cacheVars, refreshVars, schedVars, integrityVars, edgeVars>>]_vars

CacheSpec ==
    Init /\ [][CacheNext /\ UNCHANGED <<lifeVars, refreshVars, schedVars, integrityVars, edgeVars>>]_vars

LookupSpec ==
    Init /\ [][LookupNext /\ UNCHANGED <<lifeVars, refreshVars, schedVars, integrityVars, edgeVars>>]_vars

PassSpec ==
    Init /\ [][PassNext /\ UNCHANGED <<lifeVars, refreshVars, schedVars, integrityVars, edgeVars>>]_vars

RefreshSpec ==
    Init /\ [][RefreshNext /\ UNCHANGED <<lifeVars, cacheVars, schedVars, integrityVars, edgeVars>>]_vars

SchedSpec ==
    Init /\ [][SchedNext /\ UNCHANGED <<lifeVars, cacheVars, refreshVars, integrityVars, edgeVars>>]_vars

ReorderSpec ==
    Init /\ [][ReorderNext /\ UNCHANGED <<lifeVars, cacheVars, refreshVars, schedVars, edgeVars>>]_vars

IntegritySpec ==
    Init /\ [][IntegrityNext /\ UNCHANGED <<lifeVars, refreshVars, schedVars, edgeVars>>]_vars

TrailingSpec ==
    Init /\ [][TrailingNext /\ UNCHANGED <<lifeVars, cacheVars, refreshVars, schedVars, edgeVars>>]_vars

ClosureSpec ==
    Init /\ [][ClosureNext /\ UNCHANGED <<lifeVars, cacheVars, refreshVars, schedVars, edgeVars>>]_vars

LimitSpec ==
    Init /\ [][LimitNext /\ UNCHANGED <<lifeVars, cacheVars, refreshVars, schedVars, integrityVars,
                                        errorVars, oauthVars, auxVars>>]_vars

ErrorSpec ==
    Init /\ [][ErrorNext /\ UNCHANGED <<lifeVars, cacheVars, refreshVars, schedVars, integrityVars,
                                        limitVars, oauthVars, auxVars>>]_vars

OAuthSpec ==
    Init /\ [][OAuthNext /\ UNCHANGED <<lifeVars, cacheVars, refreshVars, schedVars, integrityVars,
                                        limitVars, errorVars, auxVars>>]_vars

FetchSpec ==
    Init /\ [][FetchNext /\ UNCHANGED <<coreVars, shutdownVars, streamVars, monitorVars, cliVars>>]_vars

ShutdownSpec ==
    Init /\ [][ShutdownNext /\ UNCHANGED <<coreVars, fetchVars, streamVars, monitorVars, cliVars>>]_vars

StreamSpec ==
    Init /\ [][StreamNext /\ UNCHANGED <<coreVars, fetchVars, shutdownVars, monitorVars, cliVars>>]_vars

MonitorSpec ==
    Init /\ [][MonitorNext /\ UNCHANGED <<coreVars, fetchVars, shutdownVars, streamVars, cliVars>>]_vars

CliSpec ==
    Init /\ [][CliNext /\ UNCHANGED <<coreVars, fetchVars, shutdownVars, streamVars, monitorVars>>]_vars

(***************************************************************************)
(* Account lifecycle claims                                                *)
(***************************************************************************)
\* C9: invalid is terminal: once markInvalid has been applied to an account,
\* after any further markRateLimited / markRecovering / markActive calls its
\* state is still invalid and isUsable is false.
C9_InvalidIsTerminal ==
    \A a \in AccountIds :
        invalidated[a] => (StateMachine_getState(a).state = "invalid" /\ ~StateMachine_isUsable(a))

\* an invalidated account that a later markRateLimited + markRecovering made usable
C9_InvalidLeft ==
    \E a \in AccountIds : invalidated[a] /\ StateMachine_isUsable(a)

\* C36: a rate_limited account becomes active or usable only by way of
\* recovering (a mark call that finds it rate_limited leaves it rate_limited,
\* recovering or invalid), and markRecovering changes nothing on an account
\* that is not rate_limited.
C36_DocumentedLifecycleOnly ==
    /\ lastTransition.from = "rate_limited" =>
           lastTransition.to \in {"rate_limited", "recovering", "invalid"}
    /\ (lastTransition.op = "markRecovering" /\ lastTransition.from # "rate_limited") =>
           lastTransition.to = lastTransition.from

\* markActive found the account rate_limited and left it active and usable
C36_ActiveStraightFromRateLimited ==
    /\ lastTransition.op = "markActive"
    /\ lastTransition.from = "rate_limited"
    /\ lastTransition.to = "active"
    /\ StateIn(states, lastTransition.account) = "active"
    /\ ~invalidated[lastTransition.account]

(***************************************************************************)
(* Signature cache claims                                                  *)
(***************************************************************************)
UnsignedReplayOfTracked ==
    /\ tracked # NoTracked
    /\ lastRestore # NoRestore
    /\ lastRestore.at - tracked.at < THINKING_CACHE_TTL_MS
    /\ \E i \in 1..Len(lastRestore.in) :
           lastRestore.in[i] = ThinkingBlock(tracked.text, NoSignature)

TrackedSignatureRestored ==
    \E i \in 1..Len(lastRestore.out) :
        lastRestore.out[i] = ThinkingBlock(tracked.text, tracked.signature)

\* C10 (as stated): a thinking block recorded with text T and a signature S of
\* at least 50 characters is output with signature S by every restore made less
\* than 2 hours later on an unsigned block with text T, whatever other record
\* operations happened in between (records of T itself, which replace S by
\* their own signature, set aside).
C10_RestoredWhateverRecords ==
    (UnsignedReplayOfTracked /\ ~tracked.superseded) => TrackedSignatureRestored

\* C10 (amended): the same, provided that in between no record or sweep ran
\* the size-triggered eviction of cleanupCache (the cache holding
\* MAX_CACHE_SIZE keys or more), T (compared after trimming) not being
\* recorded again.
C10_RestoredUnlessSupersededOrEvicted ==
    (UnsignedReplayOfTracked /\ ~tracked.superseded /\ ~tracked.evicted)
        => TrackedSignatureRestored

\* a restore that gave the tracked signature back after other texts were recorded
C10_RestoredAfterOtherRecords ==
    /\ UnsignedReplayOfTracked
    /\ ~tracked.superseded /\ ~tracked.evicted
    /\ recordCount >= 2
    /\ \E i \in 1..Len(thinkingSignatureCache) :
           thinkingSignatureCache[i].signature # tracked.signature
    /\ TrackedSignatureRestored

\* C11: after any sequence of record operations the number of keys held in
\* the signature cache never exceeds the cap MAX_CACHE_SIZE.
C11_SizeWithinCap == Len(thinkingSignatureCache) <= MAX_CACHE_SIZE

\* a record that found the cache one key below the cap and added two keys
C11_SizeAboveCap ==
    /\ lastRecord.made /\ lastRecord.changed
    /\ Len(thinkingSignatureCache) = MAX_CACHE_SIZE + 1

\* C12: a lookup never returns a signature whose entry was inserted more than
\* the TTL before the lookup, whether the entry is reached through the
\* full-content key or through the prefix key.
C12_NoStaleSignature ==
    (lastLookup.made /\ lastLookup.signature # NoSignature)
        => /\ lastLookup.via \in {"full", "prefix"}
           /\ lastLookup.at - lastLookup.entryAt <= THINKING_CACHE_TTL_MS

\* a lookup that reached an entry through the prefix key exactly one TTL after
\* its insertion and returned its signature
C12_PrefixHitAtTtl ==
    /\ lastLookup.made /\ lastLookup.via = "prefix"
    /\ lastLookup.signature # NoSignature
    /\ lastLookup.at - lastLookup.entryAt = THINKING_CACHE_TTL_MS

\* the lookup just made found an entry whose TTL had passed
LookupFoundExpired ==
    /\ lastLookup.made /\ lastLookup.via # "none"
    /\ lastLookup.at - lastLookup.entryAt > THINKING_CACHE_TTL_MS

\* C13: when a lookup finds an entry whose TTL has expired, then after the
\* lookup has returned nil neither the full-content key nor the prefix key of
\* the looked-up text still maps to that expired entry.
C13_ExpiredEntryDropped ==
    LookupFoundExpired =>
        /\ lastLookup.signature = NoSignature
        /\ \A k \in {hashContent(lastLookup.text), hashPrefix(lastLookup.text)} :
               MapHas(thinkingSignatureCache, k)
                   => MapGet(thinkingSignatureCache, k).timestamp # lastLookup.entryAt

\* a lookup that found an expired entry through the prefix key, returned nil
\* and left the prefix key mapped to it
C13_ExpiredEntryKeptUnderPrefixKey ==
    /\ LookupFoundExpired /\ lastLookup.via = "prefix"
    /\ lastLookup.signature = NoSignature
    /\ MapHas(thinkingSignatureCache, hashPrefix(lastLookup.text))
    /\ MapGet(thinkingSignatureCache, hashPrefix(lastLookup.text)).timestamp = lastLookup.entryAt

\* C14: every entry of the signature cache holds a signature of at least 50
\* characters, and a record with a signature shorter than 50 characters or
\* with empty text leaves the cache unchanged.
C14_OnlyLongSignatures ==
    /\ \A i \in 1..Len(thinkingSignatureCache) : thinkingSignatureCache[i].signature.len >= 50
    /\ (lastRecord.made /\ (lastRecord.shortSignature \/ lastRecord.emptyText))
           => ~lastRecord.changed

\* a record with a 49-character signature made on a cache that holds entries
C14_ShortSignatureRejected ==
    /\ lastRecord.made /\ lastRecord.shortSignature /\ ~lastRecord.changed
    /\ Len(thinkingSignatureCache) > 0

\* a lookup made within the TTL of the tracked record, no eviction having run
\* in between
LookupOfTracked ==
    /\ lastLookup.made /\ tracked # NoTracked /\ ~tracked.evicted
    /\ lastLookup.at - tracked.at <= THINKING_CACHE_TTL_MS

\* C15: within the TTL and absent eviction, after record(T, S) - and until
\* another record writes the same key - lookup(T') returns S when T' equals T
\* after normalizeContent, and also when T' has no full-content key of its own
\* but the same normalized first PREFIX_LENGTH characters as T; a text that
\* was recorded itself gets its own signature even when a later record of
\* another text has taken over the shared prefix key.
C15_ExactThenPrefixMatch ==
    LookupOfTracked =>
        /\ (normalizeContent(lastLookup.text) = normalizeContent(tracked.text)
               /\ ~tracked.superseded)
              => lastLookup.signature = tracked.signature
        /\ (lastLookup.via # "full"
               /\ hashPrefix(lastLookup.text) = hashPrefix(tracked.text)
               /\ ~tracked.prefixSuperseded)
              => lastLookup.signature = tracked.signature

\* a lookup of a recorded text that returned its own signature while the
\* shared prefix key held the signature of a later record
C15_FullMatchOverPrefix ==
    /\ LookupOfTracked
    /\ normalizeContent(lastLookup.text) = normalizeContent(tracked.text)
    /\ ~tracked.superseded /\ tracked.prefixSuperseded
    /\ MapHas(thinkingSignatureCache, hashPrefix(tracked.text))
    /\ MapGet(thinkingSignatureCache, hashPrefix(tracked.text)).signature # tracked.signature
    /\ lastLookup.signature = tracked.signature

\* trimming and collapsing every whitespace run to one character
RECURSIVE CollapseRuns(_)
CollapseRuns(str) ==
    IF Len(str) < 2 THEN str
    ELSE IF str[1] = " " /\ str[2] = " " THEN CollapseRuns(Tail(str))
    ELSE <<str[1]>> \o CollapseRuns(Tail(str))
Collapse(str) == CollapseRuns(TrimEnd(TrimStart(str)))

\* C16: record and lookup trim the text and collapse its whitespace, so two
\* texts that differ only in leading/trailing whitespace or in the length of
\* internal whitespace runs resolve to the same cache entry: a lookup of one
\* gives what a lookup of the other gives.
C16_VariantsShareEntry ==
    lastLookup.made =>
        \A t \in ThinkingTexts :
            Collapse(t) = Collapse(lastLookup.text)
                => getCachedThinkingSignature(thinkingSignatureCache, t, lastLookup.at).signature
                       = lastLookup.signature

\* two texts differing in the length of an internal whitespace run, recorded
\* with different signatures, each looked up with its own signature
C16_VariantsResolveApart ==
    /\ lastLookup.made /\ lastLookup.text = <<"a", " ", " ", "b">>
    /\ lastLookup.signature # NoSignature
    /\ getCachedThinkingSignature(thinkingSignatureCache, <<"a", " ", "b">>,
                                  lastLookup.at).signature
           \notin {NoSignature, lastLookup.signature}

\* the signature a thinking block or thought part carries, NoSignature when none
CarriedSignature(part) ==
    IF Has(part, "thought") /\ part.thought = TRUE
    THEN (IF Has(part, "thoughtSignature") THEN part.thoughtSignature ELSE NoSignature)
    ELSE (IF Has(part, "signature") THEN part.signature ELSE NoSignature)

IsThinkingBlock(block) == Has(block, "type") /\ block.type = "thinking"
IsThoughtPart(part) ==
    \/ (Has(part, "type") /\ part.type \in {"thinking", "redacted_thinking"})
    \/ Has(part, "thinking")
    \/ (Has(part, "thought") /\ part.thought = TRUE)

\* what the cache gives for the text at the time of the pass
CachedAt(text, at) ==
    IF Len(text) = 0 THEN NoSignature
    ELSE getCachedThinkingSignature(thinkingSignatureCache, text, at).signature

\* the output of restoreThinkingSignatures: thinking blocks are signed, each
\* with its own valid signature or with the cached one, the other blocks are
\* the input's, in order
RestoreOutputSigned(in, out, at) ==
    /\ \A i \in 1..Len(out) :
           IsThinkingBlock(out[i]) =>
               /\ out[i].signature.len >= MIN_SIGNATURE_LENGTH
               /\ \E j \in 1..Len(in) :
                      /\ IsThinkingBlock(in[j]) /\ in[j].thinking = out[i].thinking
                      /\ \/ (in[j].signature.len >= MIN_SIGNATURE_LENGTH
                               /\ out[i].signature = in[j].signature)
                         \/ (in[j].signature.len < MIN_SIGNATURE_LENGTH
                               /\ out[i].signature = CachedAt(in[j].thinking, at))
    /\ SelectSeq(out, LAMBDA b : ~IsThinkingBlock(b)) = SelectSeq(in, LAMBDA b : ~IsThinkingBlock(b))
    /\ Len(out) <= Len(in)

\* the same for the parts of one upstream content
FilterOutputSigned(in, out, at) ==
    /\ \A i \in 1..Len(out) :
           IsThoughtPart(out[i]) =>
               /\ CarriedSignature(out[i]).len >= MIN_SIGNATURE_LENGTH
               /\ \E j \in 1..Len(in) :
                      /\ IsThoughtPart(in[j])
                      /\ \/ (CarriedSignature(in[j]).len >= MIN_SIGNATURE_LENGTH
                               /\ CarriedSignature(out[i]) = CarriedSignature(in[j]))
                         \/ (CarriedSignature(in[j]).len < MIN_SIGNATURE_LENGTH
                               /\ Has(out[i], "text")
                               /\ out[i].text = ThinkingContentOf(in[j])
                               /\ CarriedSignature(out[i]) = CachedAt(ThinkingContentOf(in[j]), at))
    /\ SelectSeq(out, LAMBDA b : ~IsThoughtPart(b)) = SelectSeq(in, LAMBDA b : ~IsThoughtPart(b))
    /\ Len(out) <= Len(in)

\* C17: in the output of the restore pass - restoreThinkingSignatures on
\* Anthropic blocks, filterUnsignedThinkingBlocks on upstream parts - every
\* thinking block / thought part carries a signature of at least
\* MIN_SIGNATURE_LENGTH characters: each unsigned block was given the cached
\* signature or removed, and the non-thinking blocks are all kept, in their
\* original relative order.
C17_RestorePassOutputSigned ==
    /\ lastRestore # NoRestore
           => RestoreOutputSigned(lastRestore.in, lastRestore.out, lastRestore.at)
    /\ lastFilter.made
           => /\ Len(lastFilter.out) = Len(lastFilter.in)
              /\ \A m \in 1..Len(lastFilter.in) :
                     /\ lastFilter.out[m].role = lastFilter.in[m].role
                     /\ FilterOutputSigned(lastFilter.in[m].parts, lastFilter.out[m].parts,
                                           lastFilter.at)

\* a filter pass that gave one unsigned thought part the cached signature and
\* removed another
C17_OneRestoredOneRemoved ==
    /\ lastFilter.made
    /\ \E m \in 1..Len(lastFilter.in) :
           LET in == lastFilter.in[m].parts
               out == lastFilter.out[m].parts
           IN  /\ Len(out) = Len(in) - 1
               /\ \E i \in 1..Len(out), j \in 1..Len(in) :
                      /\ IsThoughtPart(out[i]) /\ IsThoughtPart(in[j])
                      /\ CarriedSignature(in[j]) = NoSignature
                      /\ Has(out[i], "text") /\ Has(in[j], "text")
                      /\ out[i].text = in[j].text
                      /\ CarriedSignature(out[i]).len >= MIN_SIGNATURE_LENGTH

\* C21: restoreThinkingSignatures applied to its own output, with the cache
\* as the first call left it, returns that output
C21_RestoreIdempotent ==
    lastRestore # NoRestore => lastRestore.again = lastRestore.out

\* a call restored one unsigned block from the cache, removed another and
\* kept a signed one; the second call changed nothing
C21_RestoredThenStable ==
    /\ lastRestore # NoRestore
    /\ Len(lastRestore.out) < Len(lastRestore.in)
    /\ \E i \in 1..Len(lastRestore.in), j \in 1..Len(lastRestore.out) :
           /\ lastRestore.in[i].type = "thinking"
           /\ lastRestore.in[i].signature.len < MIN_SIGNATURE_LENGTH
           /\ lastRestore.out[j].type = "thinking"
           /\ lastRestore.out[j].thinking = lastRestore.in[i].thinking
           /\ lastRestore.out[j].signature.len >= MIN_SIGNATURE_LENGTH
    /\ lastRestore.again = lastRestore.out

C8_RefreshSucceededBeforeOperation ==
    \A q \in Requests :
        (request[q].pc = "operation" /\ request[q].expired) => request[q].refresh = "ok"

\* C8 amended: whenever the tracked token of the chosen account is expired when
\* withProactiveRefresh is entered, a refresh has been attempted and has settled,
\* successfully or not, before the operation runs, and the operation does not run
\* with an expired token in the token cache.
C8_RefreshSettledBeforeOperation ==
    \A q \in Requests :
        (request[q].pc = "operation" /\ request[q].expired)
            => /\ request[q].refresh \in {"ok", "failed"}
               /\ request[q].token # "expired"

\* C8 witness: an operation runs for an account whose tracked token was expired,
\* after the refresh failed.
C8_OperationAfterFailedRefresh ==
    \E q \in Requests :
        /\ request[q].pc = "operation" /\ request[q].expired
        /\ request[q].refresh = "failed"

\* the backoff window after the email's consecutive failures is still open
InBackoffWindow(e) ==
    /\ tokenMetadata[e].tracked
    /\ tokenMetadata[e].consecutiveFailures >= 1
    /\ tokenMetadata[e].lastFailedAt >= 0
    /\ LET doubled == 60000 * Pow(2, tokenMetadata[e].consecutiveFailures - 1)
           window == IF doubled < 900000 THEN doubled ELSE 900000
       IN  refreshNow - tokenMetadata[e].lastFailedAt < window

\* C23: while the backoff window of an email is open, shouldRefresh is false
\* for it, and no refresh of an email is started inside its backoff window,
\* neither by withProactiveRefresh nor by backgroundRefreshCheck
C23_NoRefreshInsideBackoff ==
    /\ \A e \in Emails :
           InBackoffWindow(e) => ~(tokenMetadata[e].expiresAt - refreshNow <= 300000)
    /\ \A q \in Requests :
           (request[q].pc # "idle" /\ request[q].needed) => ~request[q].inBackoff
    /\ (lastTick.made /\ lastTick.started # "") => ~lastTick.startedInBackoff

\* a request started a refresh for an email whose refresh had just failed in
\* the background check
C23_RequestRefreshInsideBackoff ==
    \E q \in Requests :
        /\ request[q].pc \in {"awaiting", "resumed"}
        /\ request[q].needed
        /\ request[q].inBackoff
        /\ tokenMetadata[request[q].email].consecutiveFailures >= 1

\* C24: a step of the background check passes no account over for which
\* shouldRefresh holds, that is outside its backoff window and not being
\* refreshed; when a refresh it awaited has settled, consecutiveFailures is 0
\* after a success and one more than before after a failure
C24_TickRefreshesEveryDueAccount ==
    lastTick.made =>
        /\ lastTick.passed = {}
        /\ lastTick.settled # "" =>
               IF lastTick.ok THEN lastTick.after = 0
               ELSE lastTick.after = lastTick.before + 1

\* a background check ran over an account whose token had expired, outside
\* any backoff window and with no refresh scheduled, and started nothing
C24_ExpiredTokenPassedOver ==
    /\ lastTick.made
    /\ lastTick.settled = ""
    /\ lastTick.started = ""
    /\ \E e \in lastTick.passed :
           /\ tokenMetadata[e].expiresAt - refreshNow <= 0
           /\ tokenMetadata[e].consecutiveFailures = 0
           /\ ~tokenMetadata[e].refreshScheduled

(***************************************************************************)
(* Account scheduler claims                                                *)
(***************************************************************************)
\* C1 as stated: after markRateLimited(a, m, t) no selection for model m (sticky
\* pick, pickNext, the pick after an all-accounts wait, the pick after the
\* optimistic resetAllRateLimits) returns a while now < t.
C1_NeverPickedWhileMarked ==
    \A c \in Callers : calls[c].pick.account # "none" => ~calls[c].pick.limited

\* C1 amended: after markRateLimited(a, m, t) a selection for model m returns a
\* while now < t only when the optimistic resetAllRateLimits step has removed
\* a's entry since that mark.
C1_PickedWhileMarkedOnlyAfterReset ==
    \A c \in Callers : calls[c].pick.limited => calls[c].pick.afterReset

\* C1 witness: the pick made after the optimistic reset returns an account whose
\* mark has not run out.
C1_PickAfterOptimisticReset ==
    \E c \in Callers : calls[c].pick.via = "afterReset" /\ calls[c].pick.limited

\* C2: when every account is rate-limited with minimum wait w, the scheduler
\* fails at once if w > 120000 ms, with a RateLimit error that carries
\* resetAt = now + w, and sleeps and then goes on with an account instead of
\* failing if w <= 120000 ms.
C2_FailFastCarriesResetAt ==
    \A c \in Callers :
        calls[c].decision.made =>
            IF calls[c].decision.waitMs > MAX_WAIT_BEFORE_ERROR_MS
            THEN /\ calls[c].decision.outcome = "throw"
                 /\ calls[c].pc = "done" /\ calls[c].error.kind = "RESOURCE_EXHAUSTED"
                 /\ calls[c].error.minutes * 60000 = calls[c].decision.waitMs
            ELSE /\ calls[c].decision.outcome = "sleep"
                 /\ calls[c].pc \in {"sleepAll", "token"}

\* C2 witness: a fail-fast error whose message (whole minutes) does not give
\* back the wait.
C2_FailFastLosesResetAt ==
    \E c \in Callers :
        /\ calls[c].decision.outcome = "throw"
        /\ calls[c].error.minutes * 60000 # calls[c].decision.waitMs

C5_FallbackWhenAllRateLimited ==
    \A c \in Callers :
        (calls[c].wantFallback /\ getFallbackModel(calls[c].requested) # "none"
         /\ calls[c].pc = "done" /\ calls[c].error.kind = "RESOURCE_EXHAUSTED")
            => calls[c].model # calls[c].requested

\* C5 witness: fallback was enabled, yet the call ended with the RateLimit error
\* of the requested model and no fallback run.
C5_RateLimitErrorDespiteFallback ==
    \E c \in Callers :
        /\ calls[c].wantFallback /\ calls[c].fallbacks = 0
        /\ calls[c].pc = "done" /\ calls[c].error.kind = "RESOURCE_EXHAUSTED"

\* C6: within one attempt the endpoints are tried in order, daily then prod, on
\* the same account, and after a 429 from the first endpoint the second one is
\* tried in the same attempt.
C6_SecondEndpointAfter429 ==
    \A c \in Callers :
        LET log == calls[c].log IN
        /\ Len(log) <= Len(ENDPOINTS)
        /\ \A i \in DOMAIN log : log[i].endpoint = ENDPOINTS[i] /\ log[i].account = log[1].account
        /\ (Len(log) = 1 /\ log[1].limited)
             => calls[c].pc = "fetch" /\ calls[c].endpoint = 2
                /\ calls[c].account = log[1].account

\* C6 witness: the first endpoint answered 429 and the second endpoint of the
\* same attempt has answered too.
C6_ProdTriedAfterDaily429 ==
    \E c \in Callers :
        /\ Len(calls[c].log) = 2
        /\ calls[c].log[1].limited /\ calls[c].log[2].endpoint = "prod"


(***************************************************************************)
(* Thinking integrity claims                                               *)
(***************************************************************************)

\* the place of a block in the reordered array
GroupOf(block) ==
    IF Has(block, "type") /\ block.type \in {"thinking", "redacted_thinking"} THEN 1
    ELSE IF Has(block, "type") /\ block.type = "tool_use" THEN 3
    ELSE 2

\* a block that is neither null nor a text block of nothing but blanks
NonEmptyBlock(block) ==
    /\ ~Has(block, "null")
    /\ (Has(block, "type") /\ block.type = "text") =>
           \E i \in 1..Len(block.text) : block.text[i] # " "

\* a block without the fields the sanitization of thinking blocks strips
Bare(block) == [f \in DOMAIN block \ {"cache_control"} |-> block[f]]

BareNonEmptyOf(content, group) ==
    LET Chosen(block) == NonEmptyBlock(block) /\ GroupOf(block) = group
        chosen == SelectSeq(content, Chosen)
    IN [i \in 1..Len(chosen) |-> Bare(chosen[i])]

\* C20: the array reorderAssistantContent returns holds the thinking and
\* redacted_thinking blocks first, then the text and other blocks, then the
\* tool_use blocks, and each group holds exactly the non-empty blocks of that
\* group of the given array, in their original order, each once (a thinking
\* block is compared without the fields its sanitization strips)
C20_ReorderStablePartition ==
    lastReorder.made =>
        /\ \A i, j \in 1..Len(lastReorder.out) :
               (i < j /\ NonEmptyBlock(lastReorder.out[i]) /\ NonEmptyBlock(lastReorder.out[j]))
                   => GroupOf(lastReorder.out[i]) <= GroupOf(lastReorder.out[j])
        /\ \A group \in 1..3 :
               BareNonEmptyOf(lastReorder.out, group) = BareNonEmptyOf(lastReorder.in, group)

\* a tool_use, a text and a thinking block given in that order come back reversed
C20_ReversedArrayReordered ==
    /\ lastReorder.made
    /\ Len(lastReorder.in) = 3
    /\ GroupOf(lastReorder.in[1]) = 3
    /\ GroupOf(lastReorder.in[2]) = 2 /\ NonEmptyBlock(lastReorder.in[2])
    /\ GroupOf(lastReorder.in[3]) = 1
    /\ Len(lastReorder.out) = 3
    /\ Bare(lastReorder.out[1]) = Bare(lastReorder.in[3])
    /\ lastReorder.out[2] = lastReorder.in[2]
    /\ lastReorder.out[3] = lastReorder.in[1]


\* index of the last assistant message of a conversation, 0 when there is none
LastAssistantOf(messages) ==
    LET assistants == { i \in 1..Len(messages) : messages[i].role = "assistant" }
    IN  IF assistants = {} THEN 0
        ELSE CHOOSE i \in assistants : \A j \in assistants : j <= i

HoldsType(message, type) ==
    \E i \in 1..Len(message.content) :
        Has(message.content[i], "type") /\ message.content[i].type = type

\* the last assistant message holds a tool_use and only plain user messages,
\* at least one, follow it
InterruptedConversation(messages) ==
    LET k == LastAssistantOf(messages) IN
    /\ k > 0
    /\ k < Len(messages)
    /\ HoldsType(messages[k], "tool_use")
    /\ \A j \in (k + 1)..Len(messages) :
           messages[j].role = "user" /\ ~HoldsType(messages[j], "tool_result")

SyntheticText(message, text) ==
    /\ message.role = "assistant"
    /\ Len(message.content) = 1
    /\ message.content[1] = [type |-> "text", text |-> <<text>>]

\* the synthetic message stands right after the last assistant message of the
\* request, the messages that followed it come after it unchanged
InterruptionMarked ==
    LET k == LastAssistantOf(pipeline.input) IN
    /\ Len(pipeline.messages) = Len(pipeline.input) + 1
    /\ pipeline.messages[k].role = "assistant"
    /\ HoldsType(pipeline.messages[k], "tool_use")
    /\ SyntheticText(pipeline.messages[k + 1], "[Tool call was interrupted.]")
    /\ \A j \in (k + 2)..Len(pipeline.messages) : pipeline.messages[j] = pipeline.input[j - 1]

\* C18 as stated: whenever the last assistant message of the request holds a
\* tool_use and is followed by plain user messages only, the passes put the
\* synthetic message '[Tool call was interrupted.]' right after it
C18_InterruptionAlwaysMarked ==
    (pipeline.stage = "done" /\ InterruptedConversation(pipeline.input))
        => InterruptionMarked

\* C18: whenever the last assistant message of the request holds a tool_use, is
\* followed by plain user messages only, and holds no thinking block with a
\* valid signature when the tool-loop closure is reached, the passes put the
\* synthetic message '[Tool call was interrupted.]' right after it and before
\* the user messages
C18_InterruptionMarkedWithoutValidThinking ==
    (pipeline.stage = "done" /\ InterruptedConversation(pipeline.input)
         /\ ~pipeline.validThinking)
        => InterruptionMarked

\* an interrupted request of three messages has been repaired
C18_InterruptedRequestRepaired ==
    /\ pipeline.stage = "done"
    /\ Len(pipeline.input) = 3
    /\ InterruptedConversation(pipeline.input)
    /\ ~pipeline.validThinking
    /\ pipeline.recovered
    /\ InterruptionMarked

BeginsWithThinking(message) ==
    /\ Len(message.content) > 0
    /\ Has(message.content[1], "type")
    /\ message.content[1].type \in {"thinking", "redacted_thinking"}

\* C19 as stated: after the five passes the last assistant message begins
\* with a thinking or redacted_thinking block
C19_LastAssistantBeginsWithThinking ==
    (pipeline.stage = "done" /\ LastAssistantOf(pipeline.messages) > 0)
        => BeginsWithThinking(pipeline.messages[LastAssistantOf(pipeline.messages)])

\* C19: after the five passes the last assistant message begins with a
\* thinking or redacted_thinking block unless the tool-loop closure applied;
\* when it applied, no message holds a thinking block and the last assistant
\* message is the synthetic text message of the closure
C19_BeginsWithThinkingUnlessClosed ==
    (pipeline.stage = "done" /\ LastAssistantOf(pipeline.messages) > 0) =>
        LET last == pipeline.messages[LastAssistantOf(pipeline.messages)] IN
        IF pipeline.recovered
        THEN /\ \/ SyntheticText(last, "[Tool call was interrupted.]")
                \/ SyntheticText(last, "[Tool execution completed.]")
                \/ \E n \in 2..Len(pipeline.messages) :
                       /\ last.role = "assistant"
                       /\ last.content =
                              << [type |-> "text",
                                  text |-> <<"[", ToString(n), " tool executions completed.]">>] >>
             /\ \A i \in 1..Len(pipeline.messages) :
                    /\ ~HoldsType(pipeline.messages[i], "thinking")
                    /\ ~HoldsType(pipeline.messages[i], "redacted_thinking")
        ELSE BeginsWithThinking(last)

\* a last assistant message without any thinking block got the placeholder
C19_PlaceholderLeads ==
    LET k == LastAssistantOf(pipeline.input) IN
    /\ pipeline.stage = "done"
    /\ ~pipeline.recovered
    /\ k > 0
    /\ ~HoldsType(pipeline.input[k], "thinking")
    /\ ~HoldsType(pipeline.input[k], "redacted_thinking")
    /\ Len(pipeline.messages) = Len(pipeline.input)
    /\ pipeline.messages[k].content[1].thinking = <<"[Continuing from previous context]">>


\* C22: reorderAssistantContent applied to its own output returns that output
C22_ReorderIdempotent ==
    lastReorder.made => lastReorder.again = lastReorder.out

\* an array with a null element and an empty text block shrank to one block,
\* and the second call left that block alone
C22_ShrunkToOneBlock ==
    /\ lastReorder.made
    /\ Len(lastReorder.in) = 3
    /\ \E i \in 1..3 : Has(lastReorder.in[i], "null")
    /\ \E i \in 1..3 : Has(lastReorder.in[i], "text") /\ lastReorder.in[i].text = <<>>
    /\ Len(lastReorder.out) = 1
    /\ lastReorder.again = lastReorder.out

\* C30: no text block of the array reorderAssistantContent returns has an
\* empty text or a text of blanks only
C30_NoEmptyTextInOutput ==
    lastReorder.made =>
        \A i \in 1..Len(lastReorder.out) :
            (Has(lastReorder.out[i], "type") /\ lastReorder.out[i].type = "text")
                => \E j \in 1..Len(lastReorder.out[i].text) : lastReorder.out[i].text[j] # " "

\* an array made of one empty text block came back as it was
C30_SingleEmptyTextKept ==
    /\ lastReorder.made
    /\ lastReorder.in = << [type |-> "text", text |-> <<>>] >>
    /\ lastReorder.out = lastReorder.in


\* a thinking block of any format that carries no signature of at least
\* MIN_SIGNATURE_LENGTH characters
UnsignedThinking(block) ==
    /\ ~Has(block, "null")
    /\ \/ (Has(block, "type") /\ block.type \in {"thinking", "redacted_thinking"})
       \/ Has(block, "thinking")
       \/ (Has(block, "thought") /\ block.thought = TRUE)
    /\ IF Has(block, "thought") /\ block.thought = TRUE
       THEN ~(Has(block, "thoughtSignature") /\ block.thoughtSignature.len >= 50)
       ELSE ~(Has(block, "signature") /\ block.signature.len >= 50)

\* C29: removeTrailingThinkingBlocks returns a prefix of the given array, the
\* prefix is empty or ends with a block that is not an unsigned thinking
\* block, and it holds every block up to the last block of the array that is
\* not an unsigned thinking block
C29_TrailingUnsignedRemoved ==
    lastTrailing.made =>
        /\ Len(lastTrailing.out) <= Len(lastTrailing.in)
        /\ lastTrailing.out = SubSeq(lastTrailing.in, 1, Len(lastTrailing.out))
        /\ Len(lastTrailing.out) > 0
               => ~UnsignedThinking(lastTrailing.out[Len(lastTrailing.out)])
        /\ \A i \in 1..Len(lastTrailing.in) :
               ~UnsignedThinking(lastTrailing.in[i]) => Len(lastTrailing.out) >= i

\* the trailing unsigned thinking block was removed, the unsigned one in
\* front of a signed thinking block was kept
C29_TailRemovedHeadKept ==
    /\ lastTrailing.made
    /\ Len(lastTrailing.in) = 3
    /\ UnsignedThinking(lastTrailing.in[1])
    /\ Has(lastTrailing.in[2], "type") /\ lastTrailing.in[2].type = "thinking"
    /\ ~UnsignedThinking(lastTrailing.in[2])
    /\ UnsignedThinking(lastTrailing.in[3])
    /\ lastTrailing.out = SubSeq(lastTrailing.in, 1, 2)


BlocksOf(message) == IF Has(message, "content") THEN message.content ELSE message.parts

\* a thinking block of any format
AnyThinking(block) ==
    \/ (Has(block, "type") /\ block.type \in {"thinking", "redacted_thinking"})
    \/ Has(block, "thinking")
    \/ (Has(block, "thought") /\ block.thought = TRUE)

IsToolResult(block) ==
    (Has(block, "type") /\ block.type = "tool_result") \/ Has(block, "functionResponse")

IsToolUse(block) ==
    (Has(block, "type") /\ block.type = "tool_use") \/ Has(block, "functionCall")

LastModelTurn(messages) ==
    LET turns == { i \in 1..Len(messages) : messages[i].role \in {"assistant", "model"} }
    IN  IF turns = {} THEN 0 ELSE CHOOSE i \in turns : \A j \in turns : j <= i

\* messages after the last assistant message that hold a tool result
ResultMessagesAfterLast(messages) ==
    { i \in (LastModelTurn(messages) + 1)..Len(messages) :
          \E j \in 1..Len(BlocksOf(messages[i])) : IsToolResult(BlocksOf(messages[i])[j]) }

\* tool results after the last assistant message, as <<message, block>>
ResultsAfterLast(messages) ==
    { <<i, j>> \in (1..Len(messages)) \X (1..MaxContentLen) :
          /\ i > LastModelTurn(messages)
          /\ j <= Len(BlocksOf(messages[i]))
          /\ IsToolResult(BlocksOf(messages[i])[j]) }

\* the last assistant message holds a tool call and no validly signed
\* thinking, and a tool result or a plain user message follows it
ClosureDue(messages) ==
    LET k == LastModelTurn(messages) IN
    /\ k > 0
    /\ \E j \in 1..Len(BlocksOf(messages[k])) : IsToolUse(BlocksOf(messages[k])[j])
    /\ \A j \in 1..Len(BlocksOf(messages[k])) :
           AnyThinking(BlocksOf(messages[k])[j]) => UnsignedThinking(BlocksOf(messages[k])[j])
    /\ \E i \in (k + 1)..Len(messages) :
           \/ i \in ResultMessagesAfterLast(messages)
           \/ messages[i].role = "user"

NoThinkingLeft(messages) ==
    \A i \in 1..Len(messages) :
        \A j \in 1..Len(BlocksOf(messages[i])) : ~AnyThinking(BlocksOf(messages[i])[j])

\* the two messages appended in the tool-loop case, the first with the text
TwoAppended(in, out, text) ==
    /\ Len(out) = Len(in) + 2
    /\ out[Len(in) + 1] = [role |-> "assistant",
                           content |-> << [type |-> "text", text |-> text] >>]
    /\ out[Len(in) + 2] = [role |-> "user",
                           content |-> << [type |-> "text", text |-> <<"[Continue]">>] >>]

\* C28 as stated: when the closure is due, no thinking block of any format is
\* left in any message, and in the tool-loop case with N tool results the
\* messages assistant '[N tool executions completed.]' and user '[Continue]'
\* are appended
C28_ClosureAppendsCountOfResults ==
    (lastClosure.made /\ ClosureDue(lastClosure.in)) =>
        /\ NoThinkingLeft(lastClosure.out)
        /\ ResultsAfterLast(lastClosure.in) # {} =>
               TwoAppended(lastClosure.in, lastClosure.out,
                   <<"[", ToString(Cardinality(ResultsAfterLast(lastClosure.in))),
                     " tool executions completed.]">>)

\* C28: when the closure is due, no thinking block of any format is left in
\* any message, and in the tool-loop case, N being the number of messages
\* after the last assistant message that hold a tool result, the messages
\* assistant '[Tool execution completed.]' for N = 1, '[N tool executions
\* completed.]' for N > 1, and user '[Continue]' are appended
C28_ClosureAppendsCountOfResultMessages ==
    (lastClosure.made /\ ClosureDue(lastClosure.in)) =>
        /\ NoThinkingLeft(lastClosure.out)
        /\ ResultMessagesAfterLast(lastClosure.in) # {} =>
               LET n == Cardinality(ResultMessagesAfterLast(lastClosure.in)) IN
               TwoAppended(lastClosure.in, lastClosure.out,
                   IF n = 1 THEN <<"[Tool execution completed.]">>
                   ELSE <<"[", ToString(n), " tool executions completed.]">>)

\* a tool loop with two tool result messages was closed, and the unsigned
\* thinking block of the assistant message is gone
C28_ToolLoopOfTwoClosed ==
    /\ lastClosure.made
    /\ ClosureDue(lastClosure.in)
    /\ Len(lastClosure.in) = 3
    /\ ~NoThinkingLeft(lastClosure.in)
    /\ Cardinality(ResultMessagesAfterLast(lastClosure.in)) = 2
    /\ NoThinkingLeft(lastClosure.out)
    /\ TwoAppended(lastClosure.in, lastClosure.out,
           <<"[", "2", " tool executions completed.]">>)

(***************************************************************************)
(* Rate-limit report claims                                                *)
(***************************************************************************)
\* the reset time the store holds for the reported account and the model, 0 when none
ReportedReset(m) == limitStore.rateLimits[lastReport.account][m]

PayloadTokens == UNION {{text[i] : i \in 1..Len(text)} : text \in lastError.texts}
InternalTokens == {lastError.error.message[i] : i \in 1..Len(lastError.error.message)}

\* C26: no error payload built for a client holds an email address, token,
\* IP, file path, internal endpoint or project ID of the internal message
C26_NoSensitiveTokenInPayload ==
    lastError.made => PayloadTokens \cap InternalTokens \cap SensitiveTokens = {}

\* the OpenAI-compatible path answers with the email address and the access
\* token of the internal message
C26_OpenAIPayloadHoldsEmailAndToken ==
    /\ lastError.made
    /\ lastError.handler = "formatOpenAIError"
    /\ lastError.error.message = <<"user@example.com", "Bearer ya29.a0AfH6SM">>
    /\ lastError.payload.error.message = <<"user@example.com", "Bearer ya29.a0AfH6SM">>

(***************************************************************************)
(* Account enrollment claims                                               *)
(***************************************************************************)
\* completeOAuthFlow has been called with the code that came back
CodeExchanged == oauth.code # "none"

\* C27: a code is handed to the token exchange only when the state that came
\* back with it equals the state generated for the authorization request; a
\* callback that carries a code and a different state is rejected with
\* 'State mismatch' and no token exchange is made for it.
C27_ExchangeOnlyOnMatchingState ==
    /\ CodeExchanged => oauth.returned.state = oauth.state
    /\ (/\ oauth.received
        /\ oauth.returned.code # "none" /\ oauth.returned.error = "none"
        /\ oauth.returned.state \notin {"none", oauth.state})
           => (oauth.pc = "failed" /\ oauth.error = "State mismatch" /\ ~CodeExchanged)

\* the no-browser flow added an account with a code that came back with
\* another state than the generated one
C27_MismatchedStateExchanged ==
    /\ oauth.mode = "nobrowser"
    /\ oauth.pc = "added"
    /\ oauth.state = "s1"
    /\ oauth.returned = [code |-> "c1", state |-> "s2", error |-> "none"]
    /\ oauth.warned
    /\ CodeExchanged

(***************************************************************************)
(* Account scheduler claims: successful and refused requests               *)
(***************************************************************************)
\* the call's request has just been answered by an endpoint of its account
Succeeds(c) ==
    /\ calls[c].pc = "fetch"
    /\ calls'[c].pc = "done"
    /\ calls'[c].result = "response"

\* C31: when a request for a model succeeds on an account, the account has no
\* rate-limit entry for the model whose reset time lies ahead.
C31_SucceededAccountNotLimited ==
    [][\A c \in Callers :
          Succeeds(c) =>
              accountManager'.rateLimits[calls'[c].account][calls'[c].model] <= schedNow']_vars

\* the first endpoint answered 429, the second answered the request, and the
\* account's entry for the model is still active
C31_SucceededAfter429StillLimited ==
    \E c \in Callers :
        /\ calls[c].pc = "done" /\ calls[c].result = "response"
        /\ Len(calls[c].log) = 2
        /\ calls[c].log[1].account = calls[c].account /\ calls[c].log[1].limited
        /\ calls[c].log[2].account = calls[c].account /\ ~calls[c].log[2].limited
        /\ accountManager.rateLimits[calls[c].account][calls[c].model] > schedNow
        /\ count429 = 1

\* upstream answers with a 4xx status other than 401, 403 and 429
Other4xx == {resp \in Responses : resp.status = 400}

\* C32: when an endpoint answers a request with a 4xx status other than 401,
\* 403 and 429, the request fails with that error at once: no further endpoint
\* or account is tried and no fallback run is entered.
C32_Other4xxFailsAtOnce ==
    [][\A c \in Callers : \A resp \in Other4xx :
          Respond(c, resp) =>
              /\ calls'[c].pc = "done"
              /\ calls'[c].result = "error"
              /\ calls'[c].error.kind = "API 400"
              /\ calls'[c].fallbacks = calls[c].fallbacks]_vars

\* both endpoints answered 400 on the first account and the request went on
\* to the next account
C32_RetriedAfter400 ==
    \E c \in Callers :
        /\ calls[c].pc = "token"
        /\ calls[c].attempt = 1
        /\ calls[c].failure.kind = "API 400"
        /\ calls[c].failure.account = "A"
        /\ calls[c].account = "B"
        /\ count429 = 0

(***************************************************************************)
(* Account scheduler claims: waiting                                       *)
(***************************************************************************)
\* C33: the delays of the rate-limit sleeps of one request, over all of its
\* attempts, add up to no more than MAX_WAIT_BEFORE_ERROR_MS.
C33_WaitingWithinCeiling ==
    \A c \in Callers : calls[c].waited <= MAX_WAIT_BEFORE_ERROR_MS

\* a request that has slept longer than MAX_WAIT_BEFORE_ERROR_MS in all and
\* is on an account again
C33_WaitedBeyondCeiling ==
    \E c \in Callers :
        /\ calls[c].pc \in {"token", "fetch"}
        /\ calls[c].waited > MAX_WAIT_BEFORE_ERROR_MS
        /\ schedNow >= calls[c].waited

(***************************************************************************)
(* Upstream fetch claims                                                   *)
(***************************************************************************)
\* C34: once the caller has aborted the signal it passed in the fetch
\* options, the in-flight fetch started by fetchWithTimeout is aborted: the
\* signal the fetch holds is an aborted one.
C34_CallerAbortReachesFetch ==
    \A f \in Fetches :
        (fetches[f].pc = "inflight" /\ fetches[f].callerAborted) => HeldSignalAborted(f)

\* a fetch that returned the upstream response after its caller had aborted,
\* before the timeout
C34_ResponseAfterCallerAbort ==
    \E f \in Fetches :
        /\ fetches[f].pc = "done"
        /\ fetches[f].result = "response"
        /\ fetches[f].options.signal = "caller"
        /\ fetches[f].callerAborted
        /\ ~fetches[f].controllerAborted
        /\ fetchNow < fetches[f].deadline

(***************************************************************************)
(* Graceful shutdown claims                                                *)
(***************************************************************************)
NamesRun == [i \in 1..Len(shutdown.ran) |-> shutdown.ran[i].name]

\* C35: when the process has exited after SIGTERM or SIGINT, every
\* registered cleanup callback has been run, in registration order.
C35_ExitedAfterAllCallbacks ==
    shutdown.pc = "exited" => NamesRun = shutdown.cleanupCallbacks

\* the process was forced to exit while server.close was still waiting for a
\* connection that never ended, with no cleanup callback run
C35_ForcedExitBeforeCleanup ==
    /\ shutdown.pc = "exited"
    /\ shutdown.exitCode = 1
    /\ shutdown.exitedAt = "closing"
    /\ ServerConnections # {}
    /\ shutdown.cleanupCallbacks # <<>>
    /\ shutdown.ran = <<>>

\* a shutdown without lasting connections: every callback ran in order, the
\* first of them threw
C35_AllRunThoughFirstThrew ==
    /\ shutdown.pc = "exited"
    /\ shutdown.exitCode = 0
    /\ Len(shutdown.ran) = MaxCallbacks
    /\ NamesRun = shutdown.cleanupCallbacks
    /\ shutdown.ran[1].threw

(***************************************************************************)
(* OpenAI streaming conversion claims                                      *)
(***************************************************************************)
IsToolStart(event) == event.type = "content_block_start" /\ event.sub = "tool_use"
IsJsonDelta(event) == event.type = "content_block_delta" /\ event.sub = "input_json_delta"
\* number of tool_use blocks started among the first n events
ToolStartsBefore(n) == Cardinality({i \in 1..n : IsToolStart(stream.events[i])})
\* the chunk yielded for event number n, NoChunk if there is none
ChunkAt(n) ==
    IF \E k \in 1..Len(stream.out) : stream.out[k].at = n
    THEN stream.out[CHOOSE k \in 1..Len(stream.out) : stream.out[k].at = n].chunk
    ELSE NoChunk

\* chunks come in the order of the events they answer
OutputInInputOrder ==
    \A k \in 1..Len(stream.out) :
        /\ stream.out[k].at \in 1..Len(stream.events)
        /\ k > 1 => stream.out[k - 1].at < stream.out[k].at
RoleAtMostOnce ==
    Cardinality({k \in 1..Len(stream.out) : stream.out[k].chunk.kind = "role"}) <= 1
\* the tool_use block started by event n gets the number of blocks started before it
ToolCallsNumberedInOrder ==
    \A n \in 1..Len(stream.events) :
        IsToolStart(stream.events[n]) =>
            /\ ChunkAt(n).kind = "tool_call"
            /\ ChunkAt(n).index = ToolStartsBefore(n - 1)
            /\ ChunkAt(n).name = stream.events[n].data
\* the fragment of event n is forwarded as it is with the latest tool call's index
FragmentForwarded(n) ==
    /\ ChunkAt(n).kind = "tool_arguments"
    /\ ChunkAt(n).arguments = stream.events[n].data
    /\ ChunkAt(n).index = ToolStartsBefore(n) - 1
DoneOnlyOnMessageStop ==
    \A k \in 1..Len(stream.out) :
        stream.out[k].chunk.kind = "[DONE]" =>
            stream.events[stream.out[k].at].type = "message_stop"

\* C37 as stated: chunks in input order, the role chunk at most once, tool
\* calls numbered 0, 1, 2, ... in the order their blocks start, every
\* input_json_delta fragment forwarded unparsed with the index of the most
\* recently started tool call, [DONE] only for message_stop.
C37_EveryFragmentForwarded ==
    /\ OutputInInputOrder
    /\ RoleAtMostOnce
    /\ ToolCallsNumberedInOrder
    /\ \A n \in 1..Len(stream.events) : IsJsonDelta(stream.events[n]) => FragmentForwarded(n)
    /\ DoneOnlyOnMessageStop

\* C37: chunks in input order, the role chunk at most once, tool calls
\* numbered 0, 1, 2, ... in the order their blocks start, every non-empty
\* input_json_delta fragment that arrives after a tool_use block has started
\* forwarded unparsed with the index of the most recently started tool call
\* (an empty fragment, or one before any tool_use block, yields nothing),
\* [DONE] only for message_stop.
C37_NonEmptyFragmentOfStartedCallForwarded ==
    /\ OutputInInputOrder
    /\ RoleAtMostOnce
    /\ ToolCallsNumberedInOrder
    /\ \A n \in 1..Len(stream.events) :
          IsJsonDelta(stream.events[n]) =>
              IF stream.events[n].data # "" /\ ToolStartsBefore(n) > 0
              THEN FragmentForwarded(n)
              ELSE ChunkAt(n) = NoChunk
    /\ DoneOnlyOnMessageStop

\* two tool calls started, a fragment forwarded for the second, then [DONE]
C37_SecondToolCallFragmentThenDone ==
    /\ Len(stream.events) = 4
    /\ IsToolStart(stream.events[1])
    /\ IsToolStart(stream.events[2])
    /\ IsJsonDelta(stream.events[3])
    /\ stream.events[4].type = "message_stop"
    /\ Len(stream.out) = 4
    /\ stream.out[3].chunk = ToolArgumentsChunk(1, "{\"city\":")
    /\ stream.out[4].chunk = DoneLine

(***************************************************************************)
(* Tool-loop closure claims: closing twice                                 *)
(***************************************************************************)
\* C38: the output of closeToolLoopForThinking is in neither a tool-loop nor
\* an interrupted-tool state, and closing it a second time returns it
\* unchanged.
C38_ClosedStaysClosed ==
    lastClosure.made =>
        /\ ~analyzeConversationState(lastClosure.out).inToolLoop
        /\ ~analyzeConversationState(lastClosure.out).interruptedTool
        /\ closeToolLoopForThinking(lastClosure.out) = lastClosure.out

\* a history of MaxMessages messages in a tool loop that the closure changed
\* and whose output a second closure leaves alone
C38_ToolLoopClosedOnce ==
    /\ lastClosure.made
    /\ Len(lastClosure.in) = MaxMessages
    /\ analyzeConversationState(lastClosure.in).inToolLoop
    /\ Len(lastClosure.out) = MaxMessages + 2
    /\ closeToolLoopForThinking(lastClosure.out) = lastClosure.out

(***************************************************************************)
(* Background refresh monitoring claims                                    *)
(***************************************************************************)
\* C39: no background refresh check runs between the return of
\* stopBackgroundRefresh and the next startBackgroundRefresh, and there is
\* never more than one interval timer, however often startBackgroundRefresh
\* is called.
C39_NoCheckAfterStop ==
    /\ ~monitor.lastCheck.stopped
    /\ monitor.intervals <= 1

\* a check run by the initial timeout after monitoring was stopped within
\* five seconds of its start, with no interval timer left
C39_InitialCheckAfterStop ==
    /\ monitor.lastCheck.by = "timeout"
    /\ monitor.lastCheck.stopped
    /\ monitor.stopped
    /\ monitor.intervals = 0
    /\ monitor.starts = 1
    /\ monitor.lastCheck.at = INITIAL_CHECK_DELAY_MS

(***************************************************************************)
(* Accounts CLI claims                                                     *)
(***************************************************************************)
EmailsOf(accounts) == [i \in 1..Len(accounts) |-> accounts[i].email]
DistinctEmails(accounts) ==
    \A i, j \in 1..Len(accounts) : accounts[i].email = accounts[j].email => i = j
\* the add found the result's email in the list it was given
EmailKnown == \E i \in 1..Len(lastAdd.before) : lastAdd.before[i].email = lastAdd.result.email

\* C40: the saved account list never holds two accounts with the same email
\* nor more than MAX_ACCOUNTS accounts, and an add whose email is already in
\* the list saves the same accounts in the same order with that account's
\* token replaced by the new one.
C40_SavedAccountsDistinctAndCapped ==
    /\ DistinctEmails(accountFile)
    /\ Len(accountFile) <= MAX_ACCOUNTS
    /\ (lastAdd.kind # "none" /\ lastAdd.result.ok /\ EmailKnown) =>
          /\ EmailsOf(lastAdd.after) = EmailsOf(lastAdd.before)
          /\ \A i \in 1..Len(lastAdd.before) :
                lastAdd.after[i].refreshToken =
                    IF lastAdd.before[i].email = lastAdd.result.email
                    THEN lastAdd.result.refreshToken
                    ELSE lastAdd.before[i].refreshToken

\* an add of an email already saved replaced that account's token, with the
\* list still at one entry per email
C40_ExistingAccountUpdated ==
    /\ lastAdd.kind = "updated"
    /\ Len(lastAdd.before) = MAX_ACCOUNTS - 1
    /\ Len(accountFile) = MAX_ACCOUNTS - 1
    /\ accountFile = lastAdd.after
    /\ \E i \in 1..Len(lastAdd.before) :
          /\ lastAdd.before[i].email = lastAdd.result.email
          /\ lastAdd.before[i].refreshToken # lastAdd.result.refreshToken
          /\ accountFile[i].refreshToken = lastAdd.result.refreshToken

====
